---- MODULE Spec2Model ----
(***************************************************************************)
(* A model of the careless merging code: the Laue likelihood               *)
(* (models/likelihoods/laue.py), the train/test splitting of DataManager   *)
(* (io/manager.py), the reciprocal-space index (io/asu.py), the Wilson     *)
(* prior (models/priors/wilson.py) and the mergers (merge/merge.py).       *)
(*                                                                         *)
(* Conventions.  A numpy vector is a TLA+ sequence, so python position j   *)
(* is TLA+ position j+1; ids stored IN the arrays (harmonic ids, image     *)
(* ids, reflection ids, asu ids) keep the code's 0-based values.  A python *)
(* exception is the name of its class in an "outcome" field.  Each family  *)
(* of operations has its own variables and its own specification; the      *)
(* variables of the other families stay at their idle values.              *)
(***************************************************************************)
EXTENDS Integers, Sequences, FiniteSets, TLC

VARIABLES
    laue_inputs,   \* laue: the Laue inputs (harmonic_id column, number of observations)
    likelihood,    \* laue: PolyMerger.likelihood
    laue_res,      \* laue: what the last likelihood operation did
    inputs,        \* split: DataManager.inputs
    split_res,     \* split: what the last split method returned or raised
    reciprocal_asus,  \* asu: the ReciprocalASU instances (their Hall arrays)
    collection,    \* asu: the ReciprocalASUCollection built from them
    asu_res,       \* asu: what the last index lookup returned or raised
    prior,         \* wilson: the WilsonPrior (centric, epsilon)
    wilson_res,    \* wilson: what the last evaluations of the prior returned
    scaling,       \* scaling: a merger's data, metadata_keys and scaling_model
    merger,        \* lifecycle: a merger's attached components and its training
    prep,          \* prep: a PolyMerger's data before and after prep_indices
    seeded,        \* seeded: two runs of the splitting methods under their seeds
    report,        \* report: a DataManager, a surrogate posterior and get_results
    built          \* built: a dataset and the BaseMerger constructed from it

laue_vars == <<laue_inputs, likelihood, laue_res>>
split_vars == <<inputs, split_res>>
asu_vars == <<reciprocal_asus, collection, asu_res>>
wilson_vars == <<prior, wilson_res>>
vars == <<laue_vars, split_vars, asu_vars, wilson_vars, scaling, merger, prep, seeded, report, built>>
NotLaue == <<split_vars, asu_vars, wilson_vars, scaling, merger, prep, seeded, report, built>>
NotSplit == <<laue_vars, asu_vars, wilson_vars, scaling, merger, prep, seeded, report, built>>
NotAsu == <<laue_vars, split_vars, wilson_vars, scaling, merger, prep, seeded, report, built>>
NotWilson == <<laue_vars, split_vars, asu_vars, scaling, merger, prep, seeded, report, built>>
NotScaling == <<laue_vars, split_vars, asu_vars, wilson_vars, merger, prep, seeded, report, built>>
NotMerger == <<laue_vars, split_vars, asu_vars, wilson_vars, scaling, prep, seeded, report, built>>
NotPrep == <<laue_vars, split_vars, asu_vars, wilson_vars, scaling, merger, seeded, report, built>>
NotSeeded == <<laue_vars, split_vars, asu_vars, wilson_vars, scaling, merger, prep, report, built>>
NotReport == <<laue_vars, split_vars, asu_vars, wilson_vars, scaling, merger, prep, seeded, built>>
NotBuilt == <<laue_vars, split_vars, asu_vars, wilson_vars, scaling, merger, prep, seeded, report>>

(***************************************************************************)
(* Bounds of the model.                                                    *)
(***************************************************************************)
MaxObs == 2
MaxHarm == 3
MaxPred == 2
MaxDof == 2
MaxRows == 3
MaxHKL == 2
MaxAsus == 2
MaxQuery == 2
MaxRefl == 2
MaxEpsilon == 2
MaxF == 2
MaxKeys == 2
MaxMetaRows == 2
MaxIter == 2
MaxSeed == 1
MaxCalls == 2
MaxPrepRows == 3
MaxReportRows == 2
MaxColumns == 3

(***************************************************************************)
(* Helpers.                                                                *)
(***************************************************************************)
SeqsUpTo(S, lo, hi) == UNION {[1..k -> S] : k \in lo..hi}

RECURSIVE SumOver(_, _)
SumOver(f, D) ==
    IF D = {} THEN 0
    ELSE LET j == CHOOSE k \in D : TRUE IN f[j] + SumOver(f, D \ {j})

PyNone == [kind |-> "None"]
Tensor(data) == [kind |-> "tensor", data |-> data]

(***************************************************************************)
(* models/likelihoods/laue.py                                              *)
(***************************************************************************)
\* The names bound at module level of laue.py (its imports and classes).
LaueModuleGlobals ==
    {"Likelihood", "PerGroupModel", "tfd", "tfb", "tfp", "tf", "np",
     "LaueBase", "NormalLikelihood", "LaplaceLikelihood", "StudentTLikelihood"}

\* The names bound in get_sparse_conv_tensor when line 13 runs: its parameters.
SparseConvLocals == {"harmonic_id", "nobs"}

\* The names bound in LaueBase.call when line 29 runs.
CallLocals == {"self", "inputs", "harmonic_id", "intensities", "uncertainties"}

\* Python's name lookup: local scope, then module globals.
NameBound(name, locals) == name \in (locals \cup LaueModuleGlobals)

\* Lines 14-17: one entry of value 1 at (harmonic_id[j], j) for every harmonic j,
\* in a sparse tensor of dense shape (nobs, npred).
SparseTensor(harmonic_id, nobs) ==
    [idx |-> {<<harmonic_id[j], j>> : j \in 1..Len(harmonic_id)},
     ones |-> [j \in 1..Len(harmonic_id) |-> 1],
     dense_shape |-> <<nobs, Len(harmonic_id)>>]

\* LaueBase.get_sparse_conv_tensor: line 13 reads `intensities`, which is bound
\* neither in the static method nor at module level.
get_sparse_conv_tensor(harmonic_id, nobs) ==
    IF ~NameBound("intensities", SparseConvLocals)
    THEN [outcome |-> "NameError", tensor |-> PyNone]
    ELSE [outcome |-> "ok", tensor |-> SparseTensor(harmonic_id, nobs)]

\* tf.sparse.sparse_dense_matmul(sparse_conv_tensor, value, adjoint_b=True):
\* row o of the product is the sum of ones[j] * value[j] over the entries (o, j).
sparse_dense_matmul(sct, value) ==
    [o \in 1..sct.dense_shape[1] |->
        SumOver([j \in 1..Len(value) |-> sct.ones[j] * value[j]],
                {j \in 1..Len(value) : <<o - 1, j>> \in sct.idx})]

\* ConvolvedLikelihood.convolve, lines 40-41: the product is computed and dropped;
\* a python function that ends without `return` returns None.
convolve(sct, value) ==
    LET product == Tensor(sparse_dense_matmul(sct, value))
    IN  PyNone

\* ConvolvedLikelihood.log_prob, lines 49-50: what it hands to the distribution's
\* log_prob, and how that call ends (a tfp distribution raises on None).
log_prob(sct, value) ==
    LET handed == convolve(sct, value)
    IN  [handed |-> handed,
         outcome |-> IF handed = PyNone THEN "Error" ELSE "ok",
         nrows |-> IF handed = PyNone THEN 0 ELSE Len(handed.data)]

\* LaueBase.call, lines 25-52: lines 26-28 read the inputs, line 29 reads `nobs`,
\* which is bound neither in call nor at module level.
call(inp) ==
    IF ~NameBound("nobs", CallLocals)
    THEN [outcome |-> "NameError", tensor |-> PyNone]
    ELSE get_sparse_conv_tensor(inp.harmonic_id, inp.nobs)

(***************************************************************************)
(* merge/merge.py: PolyMerger's likelihood attachment.                     *)
(***************************************************************************)
\* How many positional arguments (besides self) each class's __init__ takes.
\* StudentTLikelihood.__init__(self, dof), laue.py lines 63-71.
StudentTInitArity == 1

\* NormalLikelihood and LaplaceLikelihood define no __init__: the constructor is
\* that of careless.models.likelihoods.base.Likelihood, taken to accept the
\* (iobs, sigiobs, harmonic_id) that PolyMerger._add_likelihood passes.
BaseLikelihoodInitArity == 3

InitArity(family) ==
    IF family = "StudentT" THEN StudentTInitArity ELSE BaseLikelihoodInitArity

\* PolyMerger._add_likelihood, lines 263-267, called by add_normal_likelihood,
\* add_laplace_likelihood (3 arguments) and add_studentt_likelihood (line 279:
\* StudentTLikelihood(x, y, z, dof), 4 arguments).
add_likelihood(family, nargs, dof, old) ==
    IF nargs # InitArity(family)
    THEN [outcome |-> "TypeError", likelihood |-> old]
    ELSE [outcome |-> "ok", likelihood |-> [family |-> family, dof |-> dof]]

NoLikelihood == [family |-> "None", dof |-> 0]
LaueIdleRes ==
    [op |-> "none", outcome |-> "none", family |-> "None", value |-> <<>>,
     handed |-> PyNone, nrows |-> 0]

LaueInputs ==
    {[harmonic_id |-> h, nobs |-> n] :
        n \in 1..MaxObs, h \in SeqsUpTo(0..(MaxObs - 1), 1, MaxHarm)}

LaueStart ==
    /\ laue_inputs \in {i \in LaueInputs : \A j \in 1..Len(i.harmonic_id) : i.harmonic_id[j] < i.nobs}
    /\ likelihood = NoLikelihood
    /\ laue_res = LaueIdleRes

AddLikelihood(family, nargs, dof) ==
    LET r == add_likelihood(family, nargs, dof, likelihood)
    IN  /\ likelihood' = r.likelihood
        /\ laue_res' = [LaueIdleRes EXCEPT !.op = "add_likelihood",
                            !.outcome = r.outcome, !.family = family]
        /\ UNCHANGED <<laue_inputs, NotLaue>>

add_normal_likelihood == AddLikelihood("Normal", 3, 0)

add_laplace_likelihood == AddLikelihood("Laplace", 3, 0)

add_studentt_likelihood == \E dof \in 1..MaxDof : AddLikelihood("StudentT", 4, dof)

\* LaueBase.call on the attached likelihood, then log_prob on what it returns.
LaueCall ==
    /\ likelihood.family # "None"
    /\ \E value \in [1..Len(laue_inputs.harmonic_id) -> 1..MaxPred] :
        LET c == call(laue_inputs)
            lp == log_prob(c.tensor, value)
        IN  laue_res' =
                IF c.outcome # "ok"
                THEN [LaueIdleRes EXCEPT !.op = "call", !.outcome = c.outcome,
                          !.family = likelihood.family, !.value = value]
                ELSE [op |-> "call", outcome |-> lp.outcome,
                      family |-> likelihood.family, value |-> value,
                      handed |-> lp.handed, nrows |-> lp.nrows]
    /\ UNCHANGED <<laue_inputs, likelihood, NotLaue>>

\* ConvolvedLikelihood.log_prob applied to a ConvolvedLikelihood that holds the
\* incidence tensor of lines 14-17 for the inputs.
ConvolvedLogProb ==
    \E value \in [1..Len(laue_inputs.harmonic_id) -> 1..MaxPred] :
        LET sct == SparseTensor(laue_inputs.harmonic_id, laue_inputs.nobs)
            lp == log_prob(sct, value)
        IN  /\ laue_res' = [op |-> "log_prob", outcome |-> lp.outcome,
                            family |-> likelihood.family, value |-> value,
                            handed |-> lp.handed, nrows |-> lp.nrows]
            /\ UNCHANGED <<laue_inputs, likelihood, NotLaue>>

LaueNext ==
    \/ add_normal_likelihood
    \/ add_laplace_likelihood
    \/ add_studentt_likelihood
    \/ LaueCall
    \/ ConvolvedLogProb

(***************************************************************************)
(* io/manager.py: the cross-validation splitting methods of DataManager.   *)
(* DataManager.inputs is a tuple of arrays with one row per reflection     *)
(* row, modelled as a record of sequences keyed by the array's name.       *)
(* "other" stands for every array that the split does not treat by name    *)
(* (refl_id, metadata, ...): its entry in row k is k, so a row of a        *)
(* partition names the row of the unsplit inputs it was taken from.        *)
(***************************************************************************)
Range(v) == {v[k] : k \in 1..Len(v)}

SetMax(S) == CHOOSE x \in S : \A y \in S : y <= x

\* v[idx, ...]: the rows of v where the boolean mask idx is true, in order.
Masked(v, idx) ==
    LET F[k \in 0..Len(v)] ==
            IF k = 0 THEN <<>>
            ELSE IF idx[k] THEN Append(F[k - 1], v[k]) ELSE F[k - 1]
    IN  F[Len(v)]

\* ~test_idx
Negate(idx) == [k \in 1..Len(idx) |-> ~idx[k]]

\* The sorted sequence of the members of S (the order of np.unique, np.intersect1d).
RECURSIVE SortedSeq(_)
SortedSeq(S) ==
    IF S = {} THEN <<>>
    ELSE LET m == CHOOSE x \in S : \A y \in S : x <= y
         IN  <<m>> \o SortedSeq(S \ {m})

\* np.unique(v, return_inverse=True): uni is sorted and inv[k] is the (0-based)
\* position of v[k] in uni.
unique_inverse(v) ==
    LET uni == SortedSeq(Range(v))
    IN  [uni |-> uni,
         inv |-> [k \in 1..Len(v) |-> (CHOOSE p \in 1..Len(uni) : uni[p] = v[k]) - 1]]

\* np.pad(v, [[0, n - len(v)], [0, 0]], constant_values=1.)
PadValue == 1
pad(v, n) == v \o [k \in 1..(n - Len(v)) |-> PadValue]

\* BaseModel.is_laue: Laue inputs carry a harmonic_id array.
is_laue(inp) == "harmonic_id" \in DOMAIN inp

\* split keeping the harmonic ids of the unsplit inputs.
split_no_renumber(inp, idx) ==
    LET ui == unique_inverse(Masked(inp.harmonic_id, idx))
    IN  [name \in DOMAIN inp |->
            IF name \in {"intensities", "uncertainties"}
            THEN pad([k \in 1..Len(ui.uni) |-> inp[name][ui.uni[k] + 1]], Len(ui.inv))
            ELSE Masked(inp[name], idx)]

\* The nested function split(inputs, idx) of split_laue_data_by_mask, lines 251-266.
split(inp, idx) ==
    LET ui == unique_inverse(Masked(inp.harmonic_id, idx))
    IN  [name \in DOMAIN inp |->
            IF name \in {"intensities", "uncertainties"}
            THEN pad([k \in 1..Len(ui.uni) |-> inp[name][ui.uni[k] + 1]], Len(ui.inv))
            ELSE IF name = "harmonic_id" THEN ui.inv
            ELSE Masked(inp[name], idx)]

\* isect with the negation of the second mask forgotten.
isect_same_side(harmonic_id, test_idx) ==
    SortedSeq(Range(Masked(harmonic_id, test_idx))
                \cap Range(Masked(harmonic_id, test_idx)))

\* np.intersect1d(harmonic_id[test_idx], harmonic_id[~test_idx]), lines 244-247.
isect(harmonic_id, test_idx) ==
    SortedSeq(Range(Masked(harmonic_id, test_idx))
                \cap Range(Masked(harmonic_id, Negate(test_idx))))

\* DataManager.split_laue_data_by_mask, lines 224-268.
split_laue_data_by_mask(inp, test_idx) ==
    IF Len(isect(inp.harmonic_id, test_idx)) > 0
    THEN [outcome |-> "ValueError", test_idx |-> test_idx,
          train |-> PyNone, test |-> PyNone]
    ELSE [outcome |-> "ok", test_idx |-> test_idx,
          train |-> split(inp, Negate(test_idx)), test |-> split(inp, test_idx)]

\* split_mono_data_by_mask cutting the intensities by the test mask on both sides.
split_mono_data_by_mask_one_mask(inp, test_idx) ==
    [outcome |-> "ok", test_idx |-> test_idx,
     train |-> [name \in DOMAIN inp |->
                    IF name = "intensities" THEN Masked(inp[name], test_idx)
                    ELSE Masked(inp[name], Negate(test_idx))],
     test |-> [name \in DOMAIN inp |-> Masked(inp[name], test_idx)]]

\* DataManager.split_mono_data_by_mask, lines 178-196.
split_mono_data_by_mask(inp, test_idx) ==
    [outcome |-> "ok", test_idx |-> test_idx,
     train |-> [name \in DOMAIN inp |-> Masked(inp[name], Negate(test_idx))],
     test |-> [name \in DOMAIN inp |-> Masked(inp[name], test_idx)]]

\* np.random.random(k) <= test_fraction: the outcomes for the next k numbers of
\* the generator, rand being the outcomes for the numbers it yields in turn.
random_le(rand, k) == SubSeq(rand, 1, k)

\* The mask of split_data_by_refl for Laue inputs, line 214: one outcome per
\* harmonic id (harmonic_id.max()+1 of them), gathered by the harmonic_id column.
refl_test_idx(harmonic_id, rand) ==
    LET per_group == random_le(rand, SetMax(Range(harmonic_id)) + 1)
    IN  [k \in 1..Len(harmonic_id) |-> per_group[harmonic_id[k] + 1]]

\* split_data_by_refl drawing one outcome per row for Laue inputs too.
split_data_by_refl_per_row(inp, rand) ==
    IF is_laue(inp)
    THEN split_laue_data_by_mask(inp, random_le(rand, Len(inp.other)))
    ELSE split_mono_data_by_mask(inp, random_le(rand, Len(inp.other)))

\* DataManager.split_data_by_refl, lines 198-222; for inputs that are not Laue
\* the mask has one outcome per row (len(self.inputs[0]), line 219).
split_data_by_refl(inp, rand) ==
    IF is_laue(inp)
    THEN split_laue_data_by_mask(inp, refl_test_idx(inp.harmonic_id, rand))
    ELSE split_mono_data_by_mask(inp, random_le(rand, Len(inp.other)))

\* The edge case without its elif branch.
image_edge_case_no_elif(draw) ==
    IF TRUE \notin Range(draw) THEN [draw EXCEPT ![1] = TRUE] ELSE draw

\* Lines 289-293: the low image count edge case.
image_edge_case(draw) ==
    IF TRUE \notin Range(draw) THEN [draw EXCEPT ![1] = TRUE]
    ELSE IF FALSE \notin Range(draw) THEN [draw EXCEPT ![1] = FALSE]
    ELSE draw

\* The mask of split_data_by_image, lines 286-295: one outcome per image id
\* (image_id.max()+1 of them), the edge case, then gathered by image_id.
image_test_idx(image_id, rand) ==
    LET per_image == image_edge_case(random_le(rand, SetMax(Range(image_id)) + 1))
    IN  [k \in 1..Len(image_id) |-> per_image[image_id[k] + 1]]

\* DataManager.split_data_by_image, lines 270-302.
split_data_by_image(inp, rand) ==
    IF is_laue(inp)
    THEN split_laue_data_by_mask(inp, image_test_idx(inp.image_id, rand))
    ELSE split_mono_data_by_mask(inp, image_test_idx(inp.image_id, rand))

\* The inputs a DataManager holds.  Harmonic ids and image ids are group numbers
\* (pandas ngroup), so they take every value from 0 to their maximum; the rows of
\* one harmonic group lie on one image; intensities and uncertainties of Laue
\* inputs hold the observation of harmonic id h in row h and are padded to the
\* number of rows.
IsDense(v) == Range(v) = 0..SetMax(Range(v))

IntensityOf(h) == 10 + h
UncertaintyOf(h) == 20 + h

DenseSeqs(lo, hi) == {v \in SeqsUpTo(0..(hi - 1), lo, hi) : IsDense(v)}

LaueSplitInputs ==
    UNION {
        {[harmonic_id |-> hid,
          image_id |-> [k \in 1..Len(hid) |-> img[hid[k] + 1]],
          intensities |-> pad([h \in 1..Len(img) |-> IntensityOf(h - 1)], Len(hid)),
          uncertainties |-> pad([h \in 1..Len(img) |-> UncertaintyOf(h - 1)], Len(hid)),
          other |-> [k \in 1..Len(hid) |-> k]] :
            img \in {v \in DenseSeqs(1, MaxRows) : Len(v) = SetMax(Range(hid)) + 1}} :
        hid \in DenseSeqs(1, MaxRows)}

MonoSplitInputs ==
    {[image_id |-> img,
      intensities |-> [k \in 1..Len(img) |-> IntensityOf(k - 1)],
      uncertainties |-> [k \in 1..Len(img) |-> UncertaintyOf(k - 1)],
      other |-> [k \in 1..Len(img) |-> k]] :
        img \in DenseSeqs(1, MaxRows)}

SplitIdleRes ==
    [op |-> "none", outcome |-> "none", draw |-> <<>>, test_idx |-> <<>>,
     train |-> PyNone, test |-> PyNone]

SplitStart ==
    /\ inputs \in LaueSplitInputs \cup MonoSplitInputs
    /\ split_res = SplitIdleRes

SplitResult(op, draw, r) ==
    [op |-> op, outcome |-> r.outcome, draw |-> draw, test_idx |-> r.test_idx,
     train |-> r.train, test |-> r.test]

SplitLaueByMask ==
    /\ is_laue(inputs)
    /\ \E test_idx \in [1..Len(inputs.other) -> BOOLEAN] :
        split_res' = SplitResult("split_laue_data_by_mask", <<>>,
                                 split_laue_data_by_mask(inputs, test_idx))
    /\ UNCHANGED <<inputs, NotSplit>>

SplitMonoByMask ==
    /\ ~is_laue(inputs)
    /\ \E test_idx \in [1..Len(inputs.other) -> BOOLEAN] :
        split_res' = SplitResult("split_mono_data_by_mask", <<>>,
                                 split_mono_data_by_mask(inputs, test_idx))
    /\ UNCHANGED <<inputs, NotSplit>>

SplitByRefl ==
    /\ \E rand \in [1..Len(inputs.other) -> BOOLEAN] :
        split_res' = SplitResult("split_data_by_refl",
                        random_le(rand, IF is_laue(inputs)
                                        THEN SetMax(Range(inputs.harmonic_id)) + 1
                                        ELSE Len(inputs.other)),
                        split_data_by_refl(inputs, rand))
    /\ UNCHANGED <<inputs, NotSplit>>

SplitByImage ==
    /\ \E rand \in [1..Len(inputs.other) -> BOOLEAN] :
        split_res' = SplitResult("split_data_by_image",
                        random_le(rand, SetMax(Range(inputs.image_id)) + 1),
                        split_data_by_image(inputs, rand))
    /\ UNCHANGED <<inputs, NotSplit>>

SplitNext ==
    \/ SplitLaueByMask
    \/ SplitMonoByMask
    \/ SplitByRefl
    \/ SplitByImage

(***************************************************************************)
(* io/asu.py: the reciprocal-space index.  A Miller index (H, K, L) is     *)
(* modelled as a number in 1..MaxHKL.  A numpy array is a record of its    *)
(* number of dimensions and its rows; a pandas table is the sequence of    *)
(* its rows.                                                               *)
(***************************************************************************)
Array(ndim, data) == [ndim |-> ndim, data |-> data]

\* Sequences of distinct Miller indices: what rs.utils.generate_reciprocal_asu
\* returns (lines 22-27), one row per reflection of the asymmetric unit.
Halls ==
    {h \in SeqsUpTo(1..MaxHKL, 0, MaxHKL) :
        \A i, j \in 1..Len(h) : h[i] = h[j] => i = j}

\* ReciprocalASU.__init__, lines 12-38: the lookup table has one row per row of
\* Hall, with id = np.arange(len(h)).
ReciprocalASU(Hall, anomalous) ==
    [Hall |-> Hall,
     anomalous |-> anomalous,
     lookup_table |-> [k \in 1..Len(Hall) |-> [H |-> Hall[k], id |-> k - 1]]]

\* table.set_index(...).loc[keys]: for each key in turn the rows whose index
\* label is the key, in table order; a key that labels no row is a KeyError.
RECURSIVE loc_rows(_, _, _)
loc_rows(labels, table, keys) ==
    IF keys = <<>> THEN <<>>
    ELSE LET hit == {k \in 1..Len(table) : labels[k] = Head(keys)}
         IN  [k \in 1..Cardinality(hit) |-> table[SortedSeq(hit)[k]]]
                \o loc_rows(labels, table, Tail(keys))

loc(labels, table, keys) ==
    IF \E q \in 1..Len(keys) : \A k \in 1..Len(table) : labels[k] # keys[q]
    THEN [outcome |-> "KeyError", rows |-> <<>>]
    ELSE [outcome |-> "ok", rows |-> loc_rows(labels, table, keys)]

Column(rows, name) == [k \in 1..Len(rows) |-> rows[k][name]]

\* ReciprocalASU.to_refl_id, lines 50-62: H is an (n x 3) array; the result is
\* the id column of the rows found.
asu_to_refl_id(asu, H) ==
    LET found == loc(Column(asu.lookup_table, "H"), asu.lookup_table, H.data)
    IN  IF found.outcome # "ok"
        THEN [outcome |-> found.outcome, refl_id |-> PyNone]
        ELSE [outcome |-> "ok", refl_id |-> Array(1, Column(found.rows, "id"))]

\* ReciprocalASU.to_miller_index, lines 64-76.
asu_to_miller_index(asu, refl_id) ==
    LET found == loc(Column(asu.lookup_table, "id"), asu.lookup_table, refl_id.data)
    IN  IF found.outcome # "ok"
        THEN [outcome |-> found.outcome, H |-> PyNone]
        ELSE [outcome |-> "ok", H |-> Array(2, Column(found.rows, "H"))]

\* One pass of the loop of ReciprocalASUCollection.__init__ with the ids of the
\* new rows left as they are in the ASU's own table.
append_asu_no_offset(table, asu, asu_id) ==
    LET tab == [k \in 1..Len(asu.lookup_table) |->
                    [H |-> asu.lookup_table[k].H,
                     id |-> asu.lookup_table[k].id,
                     asu_id |-> asu_id]]
    IN  IF table # PyNone
        THEN [kind |-> "table", rows |-> table.rows \o tab]
        ELSE [kind |-> "table", rows |-> tab]

\* One pass of the loop of ReciprocalASUCollection.__init__, lines 88-95: table
\* is self.lookup_table before the pass (None before the first).
append_asu(table, asu, asu_id) ==
    LET tab == [k \in 1..Len(asu.lookup_table) |->
                    [H |-> asu.lookup_table[k].H,
                     id |-> asu.lookup_table[k].id,
                     asu_id |-> asu_id]]
    IN  IF table # PyNone
        THEN [kind |-> "table",
              rows |-> table.rows \o
                        [k \in 1..Len(tab) |->
                            [tab[k] EXCEPT !.id = @ + Len(table.rows)]]]
        ELSE [kind |-> "table", rows |-> tab]

\* The loop of lines 88-95 over enumerate(self.reciprocal_asus).
RECURSIVE collect(_, _, _)
collect(asus, done, table) ==
    IF done = Len(asus) THEN table
    ELSE collect(asus, done + 1, append_asu(table, asus[done + 1], done))

\* ReciprocalASUCollection.__init__, lines 79-97: after the loop, lines 96-97
\* call self.lookup_table.set_index, which None does not have.
ReciprocalASUCollection(asus) ==
    LET table == collect(asus, 0, PyNone)
    IN  IF table = PyNone
        THEN [kind |-> "error", outcome |-> "AttributeError", lookup_table |-> <<>>]
        ELSE [kind |-> "collection", outcome |-> "ok", lookup_table |-> table.rows]

\* np.concatenate((asu_id, H), axis=1).astype('int'), line 152: the arrays must
\* have the same number of dimensions (and axis 1 must exist) and as many rows.
concatenate_axis1(asu_id, H) ==
    IF asu_id.ndim # H.ndim \/ asu_id.ndim < 2 \/ Len(asu_id.data) # Len(H.data)
    THEN [outcome |-> "ValueError", index |-> <<>>]
    ELSE [outcome |-> "ok",
          index |-> [k \in 1..Len(H.data) |-> <<asu_id.data[k], H.data[k]>>]]

\* ReciprocalASUCollection.to_asu_id_and_miller_index, lines 119-136: H is
\* data.get_hkls(), an (n x 3) array; asu_id is data['asu_id'].to_numpy('int'),
\* the values of one column, an array of one dimension.
to_asu_id_and_miller_index(coll, refl_id) ==
    LET found == loc(Column(coll.lookup_table, "id"), coll.lookup_table, refl_id.data)
    IN  IF found.outcome # "ok"
        THEN [outcome |-> found.outcome, asu_id |-> PyNone, H |-> PyNone]
        ELSE [outcome |-> "ok",
              asu_id |-> Array(1, Column(found.rows, "asu_id")),
              H |-> Array(2, Column(found.rows, "H"))]

\* ReciprocalASUCollection.to_refl_id, lines 138-153.
to_refl_id(coll, asu_id, H) ==
    LET index == concatenate_axis1(asu_id, H)
        labels == [k \in 1..Len(coll.lookup_table) |->
                        <<coll.lookup_table[k].asu_id, coll.lookup_table[k].H>>]
        found == loc(labels, coll.lookup_table, index.index)
    IN  IF index.outcome # "ok"
        THEN [outcome |-> index.outcome, refl_id |-> PyNone]
        ELSE IF found.outcome # "ok"
        THEN [outcome |-> found.outcome, refl_id |-> PyNone]
        ELSE [outcome |-> "ok", refl_id |-> Array(1, Column(found.rows, "id"))]

AsuIdleRes ==
    [op |-> "none", asu |-> 0, outcome |-> "none", arg |-> PyNone, out |-> PyNone,
     inverse_outcome |-> "none", back |-> PyNone]

\* No ReciprocalASUCollection has been constructed yet.
Unbuilt == [kind |-> "unbuilt", outcome |-> "none", lookup_table |-> <<>>]

AsuStart ==
    /\ reciprocal_asus \in
            SeqsUpTo({ReciprocalASU(h, a) : h \in Halls, a \in BOOLEAN}, 0, MaxAsus)
    /\ collection = Unbuilt
    /\ asu_res = AsuIdleRes

\* rac = ReciprocalASUCollection(reciprocal_asus)
BuildCollection ==
    /\ collection = Unbuilt
    /\ collection' = ReciprocalASUCollection(reciprocal_asus)
    /\ UNCHANGED <<reciprocal_asus, asu_res, NotAsu>>

AsuNext == BuildCollection

\* Arrays of at most MaxQuery valid reflection ids, and of keys present.
IdQueries(n) == {Array(1, q) : q \in SeqsUpTo(0..(n - 1), 1, MaxQuery)}

\* to_asu_id_and_miller_index(refl_id) on valid ids.
ToAsuIdAndMillerIndex ==
    /\ collection.outcome = "ok"
    /\ \E refl_id \in IdQueries(Len(collection.lookup_table)) :
        LET r == to_asu_id_and_miller_index(collection, refl_id)
        IN  asu_res' = [AsuIdleRes EXCEPT !.op = "to_asu_id_and_miller_index",
                            !.outcome = r.outcome, !.arg = refl_id,
                            !.out = [asu_id |-> r.asu_id, H |-> r.H]]
    /\ UNCHANGED <<reciprocal_asus, collection, NotAsu>>

\* to_refl_id(asu_id, H) on the pair the last to_asu_id_and_miller_index returned.
ToReflIdOfResult ==
    /\ asu_res.op = "to_asu_id_and_miller_index"
    /\ asu_res.outcome = "ok"
    /\ asu_res.inverse_outcome = "none"
    /\ LET r == to_refl_id(collection, asu_res.out.asu_id, asu_res.out.H)
       IN  asu_res' = [asu_res EXCEPT !.inverse_outcome = r.outcome,
                                      !.back = r.refl_id]
    /\ UNCHANGED <<reciprocal_asus, collection, NotAsu>>

\* to_refl_id(asu_id, H) on keys present in the collection, asu_id being an
\* (n x 1) array and H an (n x 3) array as the docstring requires.
ToReflId ==
    /\ collection.outcome = "ok"
    /\ \E q \in SeqsUpTo(1..Len(collection.lookup_table), 1, MaxQuery) :
        LET asu_id == Array(2, [k \in 1..Len(q) |-> collection.lookup_table[q[k]].asu_id])
            H == Array(2, [k \in 1..Len(q) |-> collection.lookup_table[q[k]].H])
            r == to_refl_id(collection, asu_id, H)
        IN  asu_res' = [AsuIdleRes EXCEPT !.op = "to_refl_id",
                            !.outcome = r.outcome,
                            !.arg = [asu_id |-> asu_id, H |-> H],
                            !.out = r.refl_id]
    /\ UNCHANGED <<reciprocal_asus, collection, NotAsu>>

\* to_asu_id_and_miller_index on the ids the last to_refl_id returned.
ToAsuIdAndMillerIndexOfResult ==
    /\ asu_res.op = "to_refl_id"
    /\ asu_res.outcome = "ok"
    /\ asu_res.inverse_outcome = "none"
    /\ LET r == to_asu_id_and_miller_index(collection, asu_res.out)
       IN  asu_res' = [asu_res EXCEPT !.inverse_outcome = r.outcome,
                                      !.back = [asu_id |-> r.asu_id, H |-> r.H]]
    /\ UNCHANGED <<reciprocal_asus, collection, NotAsu>>

\* ReciprocalASU.to_miller_index(refl_id) on valid ids of one ASU.
AsuToMillerIndex ==
    /\ \E a \in 1..Len(reciprocal_asus) :
       \E refl_id \in IdQueries(Len(reciprocal_asus[a].Hall)) :
        LET r == asu_to_miller_index(reciprocal_asus[a], refl_id)
        IN  asu_res' = [AsuIdleRes EXCEPT !.op = "asu.to_miller_index", !.asu = a,
                            !.outcome = r.outcome, !.arg = refl_id, !.out = r.H]
    /\ UNCHANGED <<reciprocal_asus, collection, NotAsu>>

\* ReciprocalASU.to_refl_id(H) on Miller indices of one ASU.
AsuToReflId ==
    /\ \E a \in 1..Len(reciprocal_asus) :
       \E q \in SeqsUpTo(1..Len(reciprocal_asus[a].Hall), 1, MaxQuery) :
        LET H == Array(2, [k \in 1..Len(q) |-> reciprocal_asus[a].Hall[q[k]]])
            r == asu_to_refl_id(reciprocal_asus[a], H)
        IN  asu_res' = [AsuIdleRes EXCEPT !.op = "asu.to_refl_id", !.asu = a,
                            !.outcome = r.outcome, !.arg = H, !.out = r.refl_id]
    /\ UNCHANGED <<reciprocal_asus, collection, NotAsu>>

\* The inverse method of the same ReciprocalASU on the last result.
AsuInverseOfResult ==
    /\ asu_res.op \in {"asu.to_miller_index", "asu.to_refl_id"}
    /\ asu_res.outcome = "ok"
    /\ asu_res.inverse_outcome = "none"
    /\ LET asu == reciprocal_asus[asu_res.asu]
           r == IF asu_res.op = "asu.to_miller_index"
                THEN asu_to_refl_id(asu, asu_res.out)
                ELSE asu_to_miller_index(asu, asu_res.out)
       IN  asu_res' = [asu_res EXCEPT !.inverse_outcome = r.outcome,
                            !.back = IF asu_res.op = "asu.to_miller_index"
                                     THEN r.refl_id ELSE r.H]
    /\ UNCHANGED <<reciprocal_asus, collection, NotAsu>>

AsuQueryNext ==
    \/ BuildCollection
    \/ ToAsuIdAndMillerIndex
    \/ ToReflIdOfResult
    \/ ToReflId
    \/ ToAsuIdAndMillerIndexOfResult
    \/ AsuToMillerIndex
    \/ AsuToReflId
    \/ AsuInverseOfResult

(***************************************************************************)
(* models/priors/wilson.py: the Wilson prior.  A density value is kept     *)
(* symbolic: which method of which distribution was evaluated at which     *)
(* argument, the argument being an exact fraction <<numerator,             *)
(* denominator>> in lowest terms.                                          *)
(***************************************************************************)
RECURSIVE Gcd(_, _)
Gcd(a, b) == IF b = 0 THEN a ELSE Gcd(b, a % b)

\* x / e as a fraction in lowest terms.
Divide(x, e) == <<x \div Gcd(x, e), e \div Gcd(x, e)>>

\* Centric(), lines 7-21: tfd.HalfNormal(scale=1.).
Centric == "HalfNormal"

\* Acentric(), lines 23-48: tfd.Chi(2) transformed by tfb.Scale(2**-0.5), the
\* Rayleigh distribution.
Acentric == "Rayleigh"

\* dist.log_prob(x), dist.prob(x), dist.mean(), dist.stddev() of one entry.
Value(fn, dist, at) == [fn |-> fn, dist |-> dist, at |-> at]

\* centric*a + (1. - centric)*b entry by entry, centric being 1. or 0.: the term
\* with the factor 0 vanishes (both terms are finite at the positive arguments
\* drawn here).
Mix(centric, a, b) ==
    [i \in 1..Len(centric) |-> IF centric[i] = 1 THEN a[i] ELSE b[i]]

\* WilsonPrior.log_prob, lines 66-73: both densities are evaluated at x itself.
wilson_log_prob(p, x) ==
    Mix(p.centric,
        [i \in 1..Len(x) |-> Value("log_prob", p.p_centric, Divide(x[i], 1))],
        [i \in 1..Len(x) |-> Value("log_prob", p.p_acentric, Divide(x[i], 1))])

\* WilsonPrior.prob, lines 75-83: x = x / self.epsilon, then both densities.
wilson_prob(p, x) ==
    LET xs == [i \in 1..Len(x) |-> Divide(x[i], p.epsilon[i])]
    IN  Mix(p.centric,
            [i \in 1..Len(x) |-> Value("prob", p.p_centric, xs[i])],
            [i \in 1..Len(x) |-> Value("prob", p.p_acentric, xs[i])])

\* WilsonPrior.mean and WilsonPrior.stddev, lines 85-89.
wilson_moment(p, fn) ==
    Mix(p.centric,
        [i \in 1..Len(p.centric) |-> Value(fn, p.p_centric, <<0, 1>>)],
        [i \in 1..Len(p.centric) |-> Value(fn, p.p_acentric, <<0, 1>>)])

\* WilsonPrior.__init__, lines 52-64.
WilsonPrior(centric, epsilon) ==
    [kind |-> "WilsonPrior", centric |-> centric, epsilon |-> epsilon,
     p_centric |-> Centric, p_acentric |-> Acentric]

\* The prior of test_Wilson: centric flags in {0, 1}, multiplicities from 1 up,
\* and positive amplitudes F, one per reflection.
WilsonStart ==
    /\ \E n \in 1..MaxRefl :
        /\ prior \in {WilsonPrior(c, e) : c \in [1..n -> {0, 1}],
                                          e \in [1..n -> 1..MaxEpsilon]}
        /\ wilson_res \in {[F |-> f, log_prob |-> PyNone, prob |-> PyNone,
                            mean |-> PyNone, stddev |-> PyNone] :
                                f \in [1..n -> 1..MaxF]}

\* log_probs = prior.log_prob(F)
WilsonLogProb ==
    /\ wilson_res' = [wilson_res EXCEPT
                        !.log_prob = Tensor(wilson_log_prob(prior, wilson_res.F))]
    /\ UNCHANGED <<prior, NotWilson>>

\* probs = prior.prob(F)
WilsonProb ==
    /\ wilson_res' = [wilson_res EXCEPT
                        !.prob = Tensor(wilson_prob(prior, wilson_res.F))]
    /\ UNCHANGED <<prior, NotWilson>>

\* prior.mean()
WilsonMean ==
    /\ wilson_res' = [wilson_res EXCEPT
                        !.mean = Tensor(wilson_moment(prior, "mean"))]
    /\ UNCHANGED <<prior, NotWilson>>

\* prior.stddev()
WilsonStddev ==
    /\ wilson_res' = [wilson_res EXCEPT
                        !.stddev = Tensor(wilson_moment(prior, "stddev"))]
    /\ UNCHANGED <<prior, NotWilson>>

WilsonNext ==
    \/ WilsonLogProb
    \/ WilsonProb
    \/ WilsonMean
    \/ WilsonStddev

(***************************************************************************)
(* merge/merge.py: BaseMerger.add_scaling_model.  self.data is a table, a  *)
(* record of columns keyed by column name; a column holds its values and   *)
(* whether they convert to float32.  A python list is a record around a    *)
(* sequence, so that it can be told from None.                             *)
(***************************************************************************)
List(items) == [kind |-> "list", items |-> items]

Series(numeric, values) == [numeric |-> numeric, values |-> values]

\* One entry of (metadata - metadata.mean(0)) / metadata.std(0), line 200, kept
\* exact: with n rows, sum s and sum of squares q, x - mean is dev / n and std is
\* sqrt(var) / n, where dev = n*x - s and var = n*q - s*s.  std = 0 exactly when
\* var = 0, and then x - mean = 0 too: numpy's 0. / 0. is nan.
standardize(v) ==
    LET n == Len(v)
        s == SumOver(v, 1..n)
        q == SumOver([i \in 1..n |-> v[i] * v[i]], 1..n)
        var == n * q - s * s
    IN  [i \in 1..n |->
            IF var = 0
            THEN [finite |-> FALSE, dev |-> n * v[i] - s, var |-> var]
            ELSE [finite |-> TRUE, dev |-> n * v[i] - s, var |-> var]]

SequentialScaler(metadata) == [kind |-> "SequentialScaler", metadata |-> metadata]

\* add_scaling_model with the scaler built and assigned before the metadata is
\* looked up.
add_scaling_model_assign_first(self, metadata_keys) ==
    LET keys == IF metadata_keys = PyNone THEN self.metadata_keys ELSE metadata_keys
    IN  IF keys = PyNone
        THEN [outcome |-> "TypeError", scaling_model |-> SequentialScaler(<<>>)]
        ELSE IF \E k \in 1..Len(keys.items) : keys.items[k] \notin DOMAIN self.data
        THEN [outcome |-> "KeyError", scaling_model |-> SequentialScaler(<<>>)]
        ELSE IF \E k \in 1..Len(keys.items) : ~self.data[keys.items[k]].numeric
        THEN [outcome |-> "ValueError", scaling_model |-> SequentialScaler(<<>>)]
        ELSE [outcome |-> "ok",
              scaling_model |-> SequentialScaler(
                    [k \in 1..Len(keys.items) |->
                        standardize(self.data[keys.items[k]].values)])]

\* BaseMerger.add_scaling_model, lines 186-202.  Line 198 raises TypeError for
\* a None list; self.data[metadata_keys] (line 199) raises KeyError for a key
\* that names no column; .astype(np.float32) raises ValueError for a column
\* that does not convert; self.scaling_model is assigned last, at line 202.
add_scaling_model(self, metadata_keys) ==
    LET keys == IF metadata_keys = PyNone THEN self.metadata_keys ELSE metadata_keys
    IN  IF keys = PyNone
        THEN [outcome |-> "TypeError", scaling_model |-> self.scaling_model]
        ELSE IF \E k \in 1..Len(keys.items) : keys.items[k] \notin DOMAIN self.data
        THEN [outcome |-> "KeyError", scaling_model |-> self.scaling_model]
        ELSE IF \E k \in 1..Len(keys.items) : ~self.data[keys.items[k]].numeric
        THEN [outcome |-> "ValueError", scaling_model |-> self.scaling_model]
        ELSE [outcome |-> "ok",
              scaling_model |-> SequentialScaler(
                    [k \in 1..Len(keys.items) |->
                        standardize(self.data[keys.items[k]].values)])]

\* Column names a caller may put in a key list: two numeric columns, a column of
\* text and a name that is no column.
KeyNames == {"BATCH", "dHKL", "label", "absent"}

KeyLists == {PyNone} \cup {List(s) : s \in SeqsUpTo(KeyNames, 1, MaxKeys)}

ScalingTables ==
    UNION {{[BATCH |-> Series(TRUE, b), dHKL |-> Series(TRUE, d),
             label |-> Series(FALSE, [i \in 1..n |-> 0])] :
                b \in [1..n -> 0..1], d \in [1..n -> 0..1]} : n \in 1..MaxMetaRows}

\* The merger after __init__: metadata_keys is the default list of lines 74-78
\* unless the caller has replaced it (by None here).
ScalingStart ==
    scaling \in {[kind |-> "merger", data |-> t, metadata_keys |-> mk,
                  scaling_model |-> PyNone, op |-> "none", arg |-> PyNone,
                  outcome |-> "none", before |-> PyNone] :
                    t \in ScalingTables,
                    mk \in {PyNone, List(<<"BATCH", "dHKL">>)}}

AddScalingModel ==
    /\ \E keys \in KeyLists :
        LET r == add_scaling_model(scaling, keys)
        IN  scaling' = [scaling EXCEPT !.scaling_model = r.scaling_model,
                            !.op = "add_scaling_model", !.arg = keys,
                            !.outcome = r.outcome, !.before = scaling.scaling_model]
    /\ UNCHANGED NotScaling

\* The user may change self.metadata_keys after the constructor is finished
\* (comment at lines 64-65).
SetMetadataKeys ==
    /\ \E mk \in {PyNone, List(<<"BATCH", "dHKL">>), List(<<"dHKL">>)} :
        /\ mk # scaling.metadata_keys
        /\ scaling' = [scaling EXCEPT !.metadata_keys = mk, !.op = "set_keys",
                            !.arg = mk, !.outcome = "ok",
                            !.before = scaling.scaling_model]
    /\ UNCHANGED NotScaling

ScalingNext ==
    \/ AddScalingModel
    \/ SetMetadataKeys

(***************************************************************************)
(* merge/merge.py: the life of a merger.  Of self.data only the set of     *)
(* column names matters here; an attached component is a record naming     *)
(* its class, an absent one is None.  train_model is followed through the  *)
(* optimization loop step by step.                                         *)
(***************************************************************************)
Classes == {"BaseMerger", "MonoMerger", "PolyMerger"}

\* The columns that prep_indices adds: BaseMerger lines 142-144, MonoMerger
\* lines 297-307, PolyMerger lines 247-259.
PrepColumns(cls) ==
    IF cls = "BaseMerger" THEN {"miller_id", "image_id", "observation_id"}
    ELSE {"miller_id", "experiment_id", "image_id", "observation_id",
          "CENTRIC", "EPSILON", "dHKL"}

prep_columns(self) == self.columns \cup PrepColumns(self.cls)

\* BaseMerger.append_reference_data, lines 88-107, for an rs.DataSet: the joins
\* of lines 104-105 add the columns REF and SIGREF.
append_reference_data(self) == self.columns \cup {"REF", "SIGREF"}

\* BaseMerger.add_wilson_prior, lines 180-184: groupby('miller_id') is a
\* KeyError without that column, .CENTRIC and .EPSILON an AttributeError.
add_wilson_prior(self) ==
    IF "miller_id" \notin self.columns
    THEN [outcome |-> "KeyError", prior |-> self.prior]
    ELSE IF {"CENTRIC", "EPSILON"} \ self.columns # {}
    THEN [outcome |-> "AttributeError", prior |-> self.prior]
    ELSE [outcome |-> "ok", prior |-> [kind |-> "WilsonPrior"]]

\* BaseMerger._add_reference_prior, lines 163-166, called by add_laplace_prior,
\* add_normal_prior and add_studentt_prior.
add_reference_prior(self, family) ==
    IF {"miller_id", "REF", "SIGREF"} \ self.columns # {}
    THEN [outcome |-> "KeyError", prior |-> self.prior]
    ELSE [outcome |-> "ok", prior |-> [kind |-> family]]

\* The constructors of careless.models.likelihoods.mono take the arguments
\* MonoMerger passes them (lines 311-326).
MonoLikelihood(family, dof) == [family |-> family, dof |-> dof]

\* add_normal_likelihood, add_laplace_likelihood, add_studentt_likelihood of a
\* merger: BaseMerger defines none of them; MonoMerger lines 311-326;
\* PolyMerger lines 263-279, where line 266 reads the column observation_id.
merger_add_likelihood(self, family, dof) ==
    IF self.cls = "BaseMerger"
    THEN [outcome |-> "AttributeError", likelihood |-> self.likelihood]
    ELSE IF self.cls = "MonoMerger"
    THEN [outcome |-> "ok", likelihood |-> MonoLikelihood(family, dof)]
    ELSE IF "observation_id" \notin self.columns
    THEN [outcome |-> "KeyError", likelihood |-> self.likelihood]
    ELSE add_likelihood(family, IF family = "StudentT" THEN 4 ELSE 3, dof,
                        self.likelihood)

\* add_scaling_model() with the default key list, which always names dHKL
\* (line 78); every column present is numeric.
merger_add_scaling_model(self) ==
    add_scaling_model(
        [data |-> [c \in self.columns |-> Series(TRUE, <<0, 1>>)],
         metadata_keys |-> List(<<"dHKL">>),
         scaling_model |-> self.scaling_model],
        PyNone)

\* VariationalMergingModel(miller_id, [scaling_model], prior, likelihood): the
\* surrogate posterior is initialized from the prior's mean and stddev, which a
\* None prior does not have; the other components are stored as given.
VariationalMergingModel(scaling_models, a_prior, a_likelihood) ==
    IF a_prior = PyNone
    THEN [outcome |-> "AttributeError", model |-> PyNone]
    ELSE [outcome |-> "ok",
          model |-> [kind |-> "VariationalMergingModel",
                     scaling_models |-> scaling_models,
                     prior |-> a_prior, likelihood |-> a_likelihood]]

\* One optimization step of VariationalMergingModel.fit: it applies the scaling
\* model and evaluates the likelihood and the prior, and yields one loss value;
\* a None scaling model or likelihood cannot be called.
fit_step(model) ==
    IF model.scaling_models[1] = PyNone \/ model.likelihood = NoLikelihood
    THEN "TypeError" ELSE "ok"

\* The loss of step k, told apart from the losses of the other steps.
Loss(k) == k

\* BaseMerger.get_results, lines 124-137: the columns it reads from self.data.
get_results_columns == {"miller_id", "dHKL", "H", "K", "L", "experiment_id"}

merger_get_results(self) ==
    IF get_results_columns \ self.columns # {}
    THEN [outcome |-> "KeyError", results |-> self.results]
    ELSE [outcome |-> "ok", results |-> [kind |-> "DataSet"]]

\* train_model up to the call of fit, lines 149-158: line 152 reads the column
\* miller_id, lines 151-156 construct the model and assign self.merger.
train_model_begin(self, iterations) ==
    IF "miller_id" \notin self.columns
    THEN [self EXCEPT !.phase = "raised", !.outcome = "KeyError"]
    ELSE LET c == VariationalMergingModel(<<self.scaling_model>>, self.prior,
                                          self.likelihood)
         IN  IF c.outcome # "ok"
             THEN [self EXCEPT !.phase = "raised", !.outcome = c.outcome]
             ELSE [self EXCEPT !.merger = c.model, !.phase = "training",
                        !.outcome = "none", !.iterations = iterations,
                        !.step = 0, !.losses = <<>>, !.returned = PyNone]

\* train_model returning the losses without storing the results.
train_model_end_no_results(self) ==
    [self EXCEPT !.phase = "returned", !.outcome = "ok",
                 !.returned = Tensor(self.losses)]

\* train_model after fit, lines 159-161: self.results = self.get_results(),
\* return losses.
train_model_end(self) ==
    LET g == merger_get_results(self)
    IN  IF g.outcome # "ok"
        THEN [self EXCEPT !.phase = "raised", !.outcome = g.outcome]
        ELSE [self EXCEPT !.phase = "returned", !.outcome = "ok",
                          !.results = g.results,
                          !.returned = Tensor(self.losses)]

\* A merger after __init__ (lines 33-78; PolyMerger lines 219-221, where
\* expand_harmonics adds dHKL and the columns of the first harmonic).
MergerStart ==
    merger \in {[kind |-> "merger", cls |-> cls,
                 columns |-> {"H", "K", "L", "BATCH", "file_id"}
                    \cup (IF cls = "PolyMerger"
                          THEN {"dHKL", "H_0", "K_0", "L_0"} ELSE {}),
                 prior |-> PyNone, likelihood |-> NoLikelihood,
                 scaling_model |-> PyNone, merger |-> PyNone,
                 results |-> PyNone, phase |-> "idle", outcome |-> "none",
                 iterations |-> 0, step |-> 0, losses |-> <<>>,
                 returned |-> PyNone] : cls \in Classes}

\* No call is made on the merger while train_model runs.
Callable == merger.phase # "training"

Called(outcome) == [merger EXCEPT !.phase = "idle", !.outcome = outcome]

PrepIndices ==
    /\ Callable
    /\ merger' = [Called("ok") EXCEPT !.columns = prep_columns(merger)]
    /\ UNCHANGED NotMerger

AppendReferenceData ==
    /\ Callable
    /\ merger' = [Called("ok") EXCEPT !.columns = append_reference_data(merger)]
    /\ UNCHANGED NotMerger

AddWilsonPrior ==
    /\ Callable
    /\ LET r == add_wilson_prior(merger)
       IN  merger' = [Called(r.outcome) EXCEPT !.prior = r.prior]
    /\ UNCHANGED NotMerger

AddReferencePrior ==
    /\ Callable
    /\ \E family \in {"NormalReferencePrior", "LaplaceReferencePrior",
                      "StudentTReferencePrior"} :
        LET r == add_reference_prior(merger, family)
        IN  merger' = [Called(r.outcome) EXCEPT !.prior = r.prior]
    /\ UNCHANGED NotMerger

MergerAddLikelihood ==
    /\ Callable
    /\ \E family \in {"Normal", "Laplace", "StudentT"} :
        LET r == merger_add_likelihood(merger, family,
                                       IF family = "StudentT" THEN 1 ELSE 0)
        IN  merger' = [Called(r.outcome) EXCEPT !.likelihood = r.likelihood]
    /\ UNCHANGED NotMerger

MergerAddScalingModel ==
    /\ Callable
    /\ LET r == merger_add_scaling_model(merger)
       IN  merger' = [Called(r.outcome) EXCEPT
                        !.scaling_model =
                            IF r.scaling_model = PyNone THEN PyNone
                            ELSE [kind |-> "SequentialScaler"]]
    /\ UNCHANGED NotMerger

TrainModel ==
    /\ Callable
    /\ \E iterations \in 0..MaxIter :
        merger' = train_model_begin(merger, iterations)
    /\ UNCHANGED NotMerger

\* One pass of the loop of fit.
FitStep ==
    /\ merger.phase = "training"
    /\ merger.step < merger.iterations
    /\ merger' =
        IF fit_step(merger.merger) # "ok"
        THEN [merger EXCEPT !.phase = "raised", !.outcome = fit_step(merger.merger)]
        ELSE [merger EXCEPT !.step = merger.step + 1,
                            !.losses = Append(merger.losses, Loss(merger.step + 1))]
    /\ UNCHANGED NotMerger

\* fit has made its last pass: train_model stores the results and returns.
TrainReturn ==
    /\ merger.phase = "training"
    /\ merger.step = merger.iterations
    /\ merger' = train_model_end(merger)
    /\ UNCHANGED NotMerger

MergerNext ==
    \/ PrepIndices
    \/ AppendReferenceData
    \/ AddWilsonPrior
    \/ AddReferencePrior
    \/ MergerAddLikelihood
    \/ MergerAddScalingModel
    \/ TrainModel
    \/ FitStep
    \/ TrainReturn

(***************************************************************************)
(* Two runs of the program on the same inputs, each under its configured   *)
(* seed (args/common.py, --seed).  The splitting methods draw from the     *)
(* module-level generator np.random; the program seeds that generator      *)
(* once from the configured seed before any draw.                          *)
(***************************************************************************)
\* Whether the p-th number the generator seeded with `seed` yields is
\* <= test_fraction: a fixed function of the seed and the position, standing
\* for numpy's generator.
Outcome(seed, p) == ((seed + 1) * p * p + (p \div 2) + seed) % 2 = 0

\* A generator that takes its state from the run instead of the seed.
np_random_unseeded(run, k) == [i \in 1..k |-> Outcome(run.id, run.pos + i)]

\* np.random.random(k) <= test_fraction in a run: the outcomes for the next k
\* numbers of the run's generator.
np_random_random(run, k) == [i \in 1..k |-> Outcome(run.seed, run.pos + i)]

\* How many numbers a splitting method draws: line 214 harmonic_id.max()+1,
\* line 219 len(self.inputs[0]), line 287 image_id.max()+1.
draws(op, inp) ==
    IF op = "split_data_by_image" THEN SetMax(Range(inp.image_id)) + 1
    ELSE IF is_laue(inp) THEN SetMax(Range(inp.harmonic_id)) + 1
    ELSE Len(inp.other)

\* A run calls a splitting method: the partition it obtains and the generator
\* moved on by the numbers drawn.
seeded_split(op, inp, run) ==
    LET rand == np_random_random(run, Len(inp.other))
        r == IF op = "split_data_by_image" THEN split_data_by_image(inp, rand)
             ELSE split_data_by_refl(inp, rand)
    IN  [run EXCEPT !.pos = run.pos + draws(op, inp),
                    !.calls = Append(run.calls, op),
                    !.parts = Append(run.parts,
                                [outcome |-> r.outcome, train |-> r.train,
                                 test |-> r.test])]

\* np.random.seed(seed) at the start of run number id.
np_random_seed(id, seed) ==
    [id |-> id, seed |-> seed, pos |-> 0, calls |-> <<>>, parts |-> <<>>]

SeededStart ==
    seeded \in {[kind |-> "runs", inputs |-> inp,
                 runs |-> <<np_random_seed(1, s1), np_random_seed(2, s2)>>] :
                    inp \in LaueSplitInputs \cup MonoSplitInputs,
                    s1 \in 0..MaxSeed, s2 \in 0..MaxSeed}

SeededSplit(r, op) ==
    /\ Len(seeded.runs[r].calls) < MaxCalls
    /\ seeded' = [seeded EXCEPT
                    !.runs[r] = seeded_split(op, seeded.inputs, seeded.runs[r])]
    /\ UNCHANGED NotSeeded

SeededSplitByRefl == \E r \in 1..2 : SeededSplit(r, "split_data_by_refl")

SeededSplitByImage == \E r \in 1..2 : SeededSplit(r, "split_data_by_image")

SeededNext ==
    \/ SeededSplitByRefl
    \/ SeededSplitByImage

(***************************************************************************)
(* merge/merge.py: PolyMerger.prep_indices.  self.data is a sequence of    *)
(* rows, one per harmonic of an observation.  Of a row the model keeps the *)
(* Miller index of the first harmonic (H_0, K_0, L_0) as the number `ray`, *)
(* the image key BATCH, the experiment key file_id, the harmonic's own     *)
(* Miller index (H, K, L) as the number `hkl`, whether some column of the  *)
(* row holds a null value, and the position `row` it was loaded at.        *)
(***************************************************************************)
\* df.groupby(keys).ngroup(): groups are numbered from 0 in the sorted order of
\* their keys, so a row's number is the count of distinct smaller keys.
ngroup(keys) ==
    [i \in 1..Len(keys) |-> Cardinality({k \in Range(keys) : k < keys[i]})]

\* A pair of key columns as one sortable key: every key value and every group
\* number is below Len(a) + 2.
KeyPair(a, b) == [i \in 1..Len(a) |-> a[i] * (Len(a) + 2) + b[i]]

Field(rows, name) == [i \in 1..Len(rows) |-> rows[i][name]]

\* Lines 237-243 dropping just the rows that hold a null.
remove_null_rows(rows) ==
    Masked(rows, [i \in 1..Len(rows) |-> ~rows[i].null])

\* Lines 237-243: df['null'] = df.isnull().any(axis=1); idx is true for a row
\* when any row of its group (H_0, K_0, L_0, image key, experiment key) is
\* null; df = df[~idx].
remove_en_bloc(rows) ==
    LET idx == [i \in 1..Len(rows) |->
                    \E j \in 1..Len(rows) :
                        /\ rows[j].ray = rows[i].ray
                        /\ rows[j].BATCH = rows[i].BATCH
                        /\ rows[j].file_id = rows[i].file_id
                        /\ rows[j].null]
    IN  Masked(rows, Negate(idx))

\* PolyMerger.prep_indices, lines 223-261.
prep_indices(rows, separate_files) ==
    LET df == remove_en_bloc(rows)
        n == Len(df)
        hkl == Field(df, "hkl")
        file_id == Field(df, "file_id")
        miller_id == IF separate_files THEN ngroup(KeyPair(hkl, file_id))
                     ELSE ngroup(hkl)
        experiment_id == IF separate_files THEN file_id ELSE [i \in 1..n |-> 0]
        image_id == ngroup(KeyPair(Field(df, "BATCH"), experiment_id))
        ray_id == ngroup(Field(df, "ray"))
        observation_id == ngroup(KeyPair(ray_id, image_id))
    IN  [i \in 1..n |->
            [ray |-> df[i].ray, BATCH |-> df[i].BATCH, file_id |-> df[i].file_id,
             hkl |-> df[i].hkl, null |-> df[i].null, row |-> df[i].row,
             miller_id |-> miller_id[i], experiment_id |-> experiment_id[i],
             image_id |-> image_id[i], ray_id |-> ray_id[i],
             observation_id |-> observation_id[i]]]

\* The rows of the files as loaded and expanded into harmonics: the files follow
\* one another, and the rows of one observation are its successive harmonics.
KeyValues == 0..1

LoadedRows ==
    {[i \in 1..Len(r) |->
        [ray |-> r[i].ray, BATCH |-> r[i].BATCH, file_id |-> r[i].file_id,
         null |-> r[i].null, row |-> i,
         hkl |-> (r[i].ray + 1) *
                 (1 + Cardinality({j \in 1..(i - 1) :
                        /\ r[j].ray = r[i].ray
                        /\ r[j].BATCH = r[i].BATCH
                        /\ r[j].file_id = r[i].file_id}))]] :
        r \in {s \in SeqsUpTo([ray : KeyValues, BATCH : KeyValues,
                               file_id : KeyValues, null : BOOLEAN],
                              1, MaxPrepRows) :
                    \A i, j \in 1..Len(s) : i < j => s[i].file_id <= s[j].file_id}}

PrepStart ==
    prep \in {[kind |-> "PolyMerger", loaded |-> rows, data |-> rows,
               op |-> "none", separate_files |-> FALSE] : rows \in LoadedRows}

PolyPrepIndices ==
    /\ \E separate_files \in BOOLEAN :
        prep' = [prep EXCEPT !.data = prep_indices(prep.data, separate_files),
                             !.op = "prep_indices",
                             !.separate_files = separate_files]
    /\ UNCHANGED NotPrep

PrepNext == PolyPrepIndices

(***************************************************************************)
(* io/manager.py: DataManager.get_results.  The surrogate posterior has    *)
(* one entry per reflection id of the collection; its mean and stddev at   *)
(* an id are numbers that tell the ids apart.                              *)
(***************************************************************************)
\* What the class ReciprocalASUCollection defines (asu.py lines 78-153).
CollectionMethods ==
    {"__init__", "centric", "multiplicity", "hkls", "asu_ids",
     "to_asu_id_and_miller_index", "to_refl_id"}

\* Python iterates over an object that defines __iter__ or __getitem__;
\* enumerate() of any other object raises TypeError.
iterable(methods) == "__iter__" \in methods \/ "__getitem__" \in methods

\* surrogate_posterior.mean() and .stddev() at a reflection id.
MeanOf(id) == 100 + id
StddevOf(id) == 200 + id

\* np.bincount(refl_id.flatten(), minlength=n), line 142.
bincount(refl_id, n) ==
    LET len == IF refl_id = <<>> \/ SetMax(Range(refl_id) \cup {0}) + 1 < n
               THEN n ELSE SetMax(Range(refl_id)) + 1
    IN  [i \in 1..len |-> Cardinality({k \in 1..Len(refl_id) : refl_id[k] = i - 1})]

\* The columns unstack_anomalous gives and lines 170-172 put first.
anom_keys == <<"F(+)", "SigF(+)", "F(-)", "SigF(-)", "N(+)", "N(-)">>

\* The body of the loop of lines 144-174 for ASU number i: the rows of the ASU
\* (lines 145-158), those never observed removed (line 164), and for an
\* anomalous ASU the Friedel mates unstacked into one row (lines 167-172).
asu_dataset(asu, i, asu_id, H, F, SigF, N) ==
    LET idx == [k \in 1..Len(asu_id) |-> asu_id[k] = i]
        rows == [k \in 1..Len(asu_id) |->
                    [H |-> H[k], F |-> F[k], SigF |-> SigF[k], N |-> N[k]]]
        output == Masked(Masked(rows, idx),
                         [k \in 1..Len(Masked(rows, idx)) |->
                            Masked(rows, idx)[k].N > 0])
    IN  IF asu.anomalous
        THEN [kind |-> "unstack_anomalous", columns |-> anom_keys, rows |-> output]
        ELSE [kind |-> "DataSet", columns |-> <<"F", "SigF", "N">>, rows |-> output]

\* DataManager.get_results, lines 108-175, for a posterior of n entries and the
\* refl_id column of the inputs.
get_results(dm, n) ==
    LET F == [k \in 1..n |-> MeanOf(k - 1)]
        SigF == [k \in 1..n |-> StddevOf(k - 1)]
        found == to_asu_id_and_miller_index(dm.collection,
                                            Array(1, [k \in 1..n |-> k - 1]))
        N == bincount(dm.refl_id, n)
    IN  IF found.outcome # "ok"
        THEN [outcome |-> found.outcome, results |-> <<>>]
        ELSE IF ~iterable(CollectionMethods)
        THEN [outcome |-> "TypeError", results |-> <<>>]
        ELSE [outcome |-> "ok",
              results |-> [i \in 1..Len(dm.asus) |->
                            asu_dataset(dm.asus[i], i - 1, found.asu_id.data,
                                        found.H.data, F, SigF, N)]]

\* compute_multiplicity() and label_centrics() of asu.py line 38 give every
\* reflection its EPSILON and CENTRIC from its Miller index and the spacegroup.
compute_multiplicity(H) == 1 + (H % MaxEpsilon)
label_centrics(H) == H % 2

\* ReciprocalASUCollection.centric and .multiplicity, asu.py lines 99-107.
centric(coll) ==
    [k \in 1..Len(coll.lookup_table) |-> label_centrics(coll.lookup_table[k].H)]
multiplicity(coll) ==
    [k \in 1..Len(coll.lookup_table) |-> compute_multiplicity(coll.lookup_table[k].H)]

\* WilsonPrior.__init__(self, centric, epsilon), wilson.py line 52: the number
\* of arguments it takes after self.
WilsonPriorInitArity == 2

\* The values of b a caller passes: None, a float, an int, a string.
BValues == {PyNone, [kind |-> "float"], [kind |-> "int"], [kind |-> "str"]}

\* DataManager.get_wilson_prior, manager.py lines 29-42.  Line 34 reads
\* self.asu_collection.dHKL; line 38 calls WilsonPrior with three arguments.
get_wilson_prior(dm, b) ==
    LET sigma == IF b = PyNone THEN "1." ELSE "exp(-0.25 * b * dHKL**-2.)"
    IN  IF b # PyNone /\ b.kind # "float"
        THEN [outcome |-> "ValueError", prior |-> PyNone, sigma |-> "none"]
        ELSE IF b # PyNone /\ "dHKL" \notin CollectionMethods
        THEN [outcome |-> "AttributeError", prior |-> PyNone, sigma |-> "none"]
        ELSE IF Len(<<centric(dm.collection), multiplicity(dm.collection), sigma>>)
                    # WilsonPriorInitArity
        THEN [outcome |-> "TypeError", prior |-> PyNone, sigma |-> "none"]
        ELSE [outcome |-> "ok",
              prior |-> WilsonPrior(centric(dm.collection),
                                    multiplicity(dm.collection)),
              sigma |-> sigma]

\* A DataManager over a collection of ASUs, with inputs whose reflection ids
\* are ids of the collection.
ReportStart ==
    report \in
        UNION {
            {[kind |-> "DataManager", asus |-> asus,
              collection |-> ReciprocalASUCollection(asus),
              refl_id |-> refl_id, op |-> "none", outcome |-> "none",
              results |-> <<>>, b |-> PyNone, prior |-> PyNone,
              sigma |-> "none"] :
                refl_id \in SeqsUpTo(
                    0..(Len(ReciprocalASUCollection(asus).lookup_table) - 1),
                    0, MaxReportRows)} :
            asus \in SeqsUpTo({ReciprocalASU(h, a) : h \in Halls, a \in BOOLEAN},
                              1, MaxAsus)}

GetResults ==
    /\ LET r == get_results(report, Len(report.collection.lookup_table))
       IN  report' = [report EXCEPT !.op = "get_results",
                            !.outcome = r.outcome, !.results = r.results]
    /\ UNCHANGED NotReport

GetWilsonPrior ==
    /\ \E b \in BValues :
        LET r == get_wilson_prior(report, b)
        IN  report' = [report EXCEPT !.op = "get_wilson_prior", !.b = b,
                             !.outcome = r.outcome, !.prior = r.prior,
                             !.sigma = r.sigma]
    /\ UNCHANGED NotReport

ReportNext == GetResults \/ GetWilsonPrior

(***************************************************************************)
(* merge/merge.py: get_first_key_of_type, BaseMerger.__init__ and          *)
(* BaseMerger.append_reference_data.  A dataset is the sequence of its     *)
(* data columns, each a name and an MTZ dtype letter, in column order; the *)
(* Miller index columns H, K, L are always there.                          *)
(***************************************************************************)
DataColumn(name, dtype) == [name |-> name, dtype |-> dtype]

\* Intensities (J), standard deviations (Q), an amplitude (F), a batch (B).
ColumnPool ==
    {DataColumn("I", "J"), DataColumn("IMEAN", "J"), DataColumn("SigI", "Q"),
     DataColumn("SIGI", "Q"), DataColumn("SIGIMEAN", "Q"), DataColumn("SigF", "Q"),
     DataColumn("F", "F"), DataColumn("BATCH", "B")}

Datasets ==
    {ds \in SeqsUpTo(ColumnPool, 0, MaxColumns) :
        \A i, j \in 1..Len(ds) : ds[i] = ds[j] => i = j}

Names(ds) == {ds[k].name : k \in 1..Len(ds)}

\* get_first_key_of_type, lines 8-13: idx = ds.dtypes=='J' whatever the
\* typestring; KeyError when idx selects no column, else the first selected.
get_first_key_of_type(ds, typestring) ==
    LET idx == {k \in 1..Len(ds) : ds[k].dtype = "J"}
    IN  IF Cardinality(idx) < 1
        THEN [outcome |-> "KeyError", key |-> ""]
        ELSE [outcome |-> "ok", key |-> ds[SortedSeq(idx)[1]].name]

\* BaseMerger.__init__, lines 43-78: the copy of the dataset with the columns
\* Hobs, Kobs, Lobs added (line 48), and the guessed keys of lines 66-72.
BaseMerger_init(dataset) ==
    LET data == [columns |-> Names(dataset) \cup {"H", "K", "L", "Hobs", "Kobs", "Lobs"},
                 cell |-> "cell", spacegroup |-> "spacegroup"]
        first == get_first_key_of_type(dataset, "J")
        guess == get_first_key_of_type(dataset, "Q")
    IN  IF first.outcome # "ok"
        THEN [outcome |-> first.outcome, data |-> data, intensity_key |-> "",
              sigma_intensity_key |-> ""]
        ELSE IF ("Sig" \o first.key) \in data.columns
        THEN [outcome |-> "ok", data |-> data, intensity_key |-> first.key,
              sigma_intensity_key |-> "Sig" \o first.key]
        ELSE IF ("SIG" \o first.key) \in data.columns
        THEN [outcome |-> "ok", data |-> data, intensity_key |-> first.key,
              sigma_intensity_key |-> "SIG" \o first.key]
        ELSE [outcome |-> guess.outcome, data |-> data, intensity_key |-> first.key,
              sigma_intensity_key |-> guess.key]

\* The types of the argument of append_reference_data: the name of an MTZ file,
\* an rs.DataSet indexed by H, K, L with an F and a Q column, or something else.
ReferenceTypes == {"str", "DataSet", "int", "list", "NoneType"}

\* The local names bound when the else branch of line 100 runs.
BoundAtRaise == {"self", "data"}

\* BaseMerger.append_reference_data, lines 88-107.  Lines 93-98 bind ds for a
\* str or an rs.DataSet; the else branch (line 100) builds its message from
\* type(ds) with ds never assigned.  Lines 102-106 join REF and SIGREF and put
\* the saved cell and spacegroup back.
BaseMerger_append_reference_data(self, type) ==
    IF type \in {"str", "DataSet"}
    THEN [outcome |-> "ok", returned |-> "self",
          data |-> [columns |-> append_reference_data(self.data),
                    cell |-> self.data.cell, spacegroup |-> self.data.spacegroup]]
    ELSE IF "ds" \notin BoundAtRaise
    THEN [outcome |-> "UnboundLocalError", returned |-> "none", data |-> self.data]
    ELSE [outcome |-> "TypeError", returned |-> "none", data |-> self.data]

\* A dataset as loaded, with no merger built from it yet.
BuiltStart ==
    built \in {[kind |-> "dataset", dataset |-> ds, constructed |-> FALSE,
                data |-> [columns |-> {}, cell |-> "cell", spacegroup |-> "spacegroup"],
                intensity_key |-> "", sigma_intensity_key |-> "",
                op |-> "none", arg |-> "none", outcome |-> "none",
                returned |-> "none", before |-> {}] : ds \in Datasets}

\* get_first_key_of_type(ds, typestring) called on the dataset.
GetFirstKeyOfType ==
    /\ ~built.constructed
    /\ \E typestring \in {"J", "Q", "B"} :
        LET r == get_first_key_of_type(built.dataset, typestring)
        IN  built' = [built EXCEPT !.op = "get_first_key_of_type",
                            !.arg = typestring, !.outcome = r.outcome,
                            !.returned = r.key]
    /\ UNCHANGED NotBuilt

\* BaseMerger(dataset)
Construct ==
    /\ ~built.constructed
    /\ LET r == BaseMerger_init(built.dataset)
       IN  built' = [built EXCEPT !.op = "__init__", !.arg = "none",
                           !.outcome = r.outcome, !.returned = "none",
                           !.constructed = (r.outcome = "ok"),
                           !.data = r.data,
                           !.intensity_key = r.intensity_key,
                           !.sigma_intensity_key = r.sigma_intensity_key]
    /\ UNCHANGED NotBuilt

\* merger.append_reference_data(data)
AppendReference ==
    /\ built.constructed
    /\ built.op # "append_reference_data"
    /\ \E type \in ReferenceTypes :
        LET r == BaseMerger_append_reference_data(built, type)
        IN  built' = [built EXCEPT !.op = "append_reference_data", !.arg = type,
                            !.outcome = r.outcome, !.returned = r.returned,
                            !.before = built.data.columns, !.data = r.data]
    /\ UNCHANGED NotBuilt

BuiltNext == GetFirstKeyOfType \/ Construct \/ AppendReference

(***************************************************************************)
(* Idle values and the specifications.                                     *)
(***************************************************************************)
LaueIdle ==
    /\ laue_inputs = [harmonic_id |-> <<>>, nobs |-> 0]
    /\ likelihood = NoLikelihood
    /\ laue_res = LaueIdleRes

SplitIdle ==
    /\ inputs = [other |-> <<>>]
    /\ split_res = SplitIdleRes

AsuIdle ==
    /\ reciprocal_asus = <<>>
    /\ collection = [kind |-> "idle", outcome |-> "none", lookup_table |-> <<>>]
    /\ asu_res = AsuIdleRes

WilsonIdle ==
    /\ prior = PyNone
    /\ wilson_res = [F |-> <<>>]

Idle == [kind |-> "idle", op |-> "none"]

LaueInit ==
    /\ LaueStart /\ SplitIdle /\ AsuIdle /\ WilsonIdle
    /\ scaling = Idle /\ merger = Idle /\ prep = Idle /\ seeded = Idle /\ report = Idle
    /\ built = Idle
SplitInit ==
    /\ LaueIdle /\ SplitStart /\ AsuIdle /\ WilsonIdle
    /\ scaling = Idle /\ merger = Idle /\ prep = Idle /\ seeded = Idle /\ report = Idle
    /\ built = Idle
AsuInit ==
    /\ LaueIdle /\ SplitIdle /\ AsuStart /\ WilsonIdle
    /\ scaling = Idle /\ merger = Idle /\ prep = Idle /\ seeded = Idle /\ report = Idle
    /\ built = Idle
WilsonInit ==
    /\ LaueIdle /\ SplitIdle /\ AsuIdle /\ WilsonStart
    /\ scaling = Idle /\ merger = Idle /\ prep = Idle /\ seeded = Idle /\ report = Idle
    /\ built = Idle
ScalingInit ==
    /\ LaueIdle /\ SplitIdle /\ AsuIdle /\ WilsonIdle
    /\ ScalingStart /\ merger = Idle /\ prep = Idle /\ seeded = Idle /\ report = Idle
    /\ built = Idle
SeededInit ==
    /\ LaueIdle /\ SplitIdle /\ AsuIdle /\ WilsonIdle
    /\ scaling = Idle /\ merger = Idle /\ prep = Idle /\ SeededStart /\ report = Idle
    /\ built = Idle
PrepInit ==
    /\ LaueIdle /\ SplitIdle /\ AsuIdle /\ WilsonIdle
    /\ scaling = Idle /\ merger = Idle /\ PrepStart /\ seeded = Idle /\ report = Idle
    /\ built = Idle
ReportInit ==
    /\ LaueIdle /\ SplitIdle /\ AsuIdle /\ WilsonIdle
    /\ scaling = Idle /\ merger = Idle /\ prep = Idle /\ seeded = Idle /\ ReportStart
    /\ built = Idle
BuiltInit ==
    /\ LaueIdle /\ SplitIdle /\ AsuIdle /\ WilsonIdle
    /\ scaling = Idle /\ merger = Idle /\ prep = Idle /\ seeded = Idle /\ report = Idle
    /\ BuiltStart
MergerInit ==
    /\ LaueIdle /\ SplitIdle /\ AsuIdle /\ WilsonIdle
    /\ scaling = Idle /\ MergerStart /\ prep = Idle /\ seeded = Idle /\ report = Idle
    /\ built = Idle

LaueSpec == LaueInit /\ [][LaueNext]_vars
SplitSpec == SplitInit /\ [][SplitNext]_vars
AsuSpec == AsuInit /\ [][AsuNext]_vars
AsuQuerySpec == AsuInit /\ [][AsuQueryNext]_vars
WilsonSpec == WilsonInit /\ [][WilsonNext]_vars
ScalingSpec == ScalingInit /\ [][ScalingNext]_vars
MergerSpec == MergerInit /\ [][MergerNext]_vars
ReportSpec == ReportInit /\ [][ReportNext]_vars
BuiltSpec == BuiltInit /\ [][BuiltNext]_vars
PrepSpec == PrepInit /\ [][PrepNext]_vars
SeededSpec == SeededInit /\ [][SeededNext]_vars
\* The loop of fit and the return of train_model are not held up.
MergerFairSpec == MergerSpec /\ WF_vars(FitStep) /\ WF_vars(TrainReturn)

Init == LaueInit \/ SplitInit \/ AsuInit \/ WilsonInit \/ ScalingInit \/ MergerInit
            \/ SeededInit \/ PrepInit \/ ReportInit \/ BuiltInit
Next ==
    \/ (laue_inputs.nobs > 0 /\ LaueNext)
    \/ (Len(inputs.other) > 0 /\ SplitNext)
    \/ (collection.kind # "idle" /\ AsuQueryNext)
    \/ (prior # PyNone /\ WilsonNext)
    \/ (scaling.kind # "idle" /\ ScalingNext)
    \/ (merger.kind # "idle" /\ MergerNext)
    \/ (seeded.kind # "idle" /\ SeededNext)
    \/ (prep.kind # "idle" /\ PrepNext)
    \/ (report.kind # "idle" /\ ReportNext)
    \/ (built.kind # "idle" /\ BuiltNext)
Spec == Init /\ [][Next]_vars


(***************************************************************************)
(* Claims about the Laue likelihood.                                       *)
(***************************************************************************)
\* The exact per-observation sums: entry o is the sum of the predictions of the
\* harmonics j with harmonic_id[j] = o.
ExactSums(inp, value) ==
    [o \in 1..inp.nobs |->
        SumOver(value, {j \in 1..Len(value) : inp.harmonic_id[j] = o - 1})]

\* C1: whenever log_prob has been evaluated on per-harmonic predictions, the value
\* that convolve handed to the distribution's log_prob has one entry per
\* observation, and entry o is the exact sum of the predictions of precisely the
\* harmonics j with harmonic_id[j] = o.
C1_ConvolveHandsExactSums ==
    laue_res.op \in {"call", "log_prob"} =>
        /\ laue_res.handed = Tensor(ExactSums(laue_inputs, laue_res.value))
        /\ Len(laue_res.handed.data) = laue_inputs.nobs

\* C2: each of the three families attaches through its add_*_likelihood method,
\* and LaueBase.call on the Laue inputs then completes without error and yields
\* one log-probability per observation.
C2_FamiliesAttachAndEvaluate ==
    /\ laue_res.op = "add_likelihood" =>
            /\ laue_res.outcome = "ok"
            /\ likelihood.family = laue_res.family
    /\ laue_res.op = "call" =>
            /\ laue_res.outcome = "ok"
            /\ laue_res.nrows = laue_inputs.nobs

(***************************************************************************)
(* Claims about the train/test splits.                                     *)
(***************************************************************************)
\* Some harmonic id has a row where the mask is true and a row where it is false.
SplitsAGroup(harmonic_id, idx) ==
    \E i, j \in 1..Len(harmonic_id) :
        harmonic_id[i] = harmonic_id[j] /\ idx[i] /\ ~idx[j]

C3_Returned ==
    split_res.op = "split_laue_data_by_mask" =>
        /\ split_res.outcome \in {"ok", "ValueError"}
        /\ (split_res.outcome = "ValueError")
                <=> SplitsAGroup(inputs.harmonic_id, split_res.test_idx)
        /\ (split_res.outcome = "ValueError")
                <=> (split_res.train = PyNone /\ split_res.test = PyNone)

\* C3: split_laue_data_by_mask raises ValueError if and only if some harmonic id
\* has a row with test_idx true and a row with test_idx false; when it raises no
\* partition is returned; and no call changes self.inputs.
C3_RaisesIffGroupSplit == []C3_Returned /\ [][inputs' = inputs]_vars

C3_Witness ==
    /\ split_res.op = "split_laue_data_by_mask"
    /\ split_res.outcome = "ValueError"
    /\ SplitsAGroup(inputs.harmonic_id, split_res.test_idx)

\* The harmonic ids, as numbered in the unsplit inputs, of the rows of a partition.
OldHarmonicIds(part) == {inputs.harmonic_id[k] : k \in Range(part.other)}

\* C4: for Laue inputs split_data_by_refl never ends in the ValueError of
\* split_laue_data_by_mask, and the harmonic ids (as numbered in the unsplit
\* inputs) of the train rows and of the test rows do not intersect.
C4_ReflSplitKeepsGroups ==
    (split_res.op = "split_data_by_refl" /\ is_laue(inputs)) =>
        /\ split_res.outcome = "ok"
        /\ OldHarmonicIds(split_res.train) \cap OldHarmonicIds(split_res.test) = {}
        /\ Range(split_res.train.other) \cup Range(split_res.test.other)
                = 1..Len(inputs.other)

C4_Witness ==
    /\ split_res.op = "split_data_by_refl"
    /\ is_laue(inputs)
    /\ split_res.outcome = "ok"
    /\ Len(split_res.train.other) > 0
    /\ Len(split_res.test.other) > 1
    /\ Cardinality(OldHarmonicIds(split_res.test)) = 1

NumImages == SetMax(Range(inputs.image_id)) + 1

WholeImagesOnBothSides ==
    /\ split_res.outcome = "ok"
    /\ Range(split_res.train.image_id) \cap Range(split_res.test.image_id) = {}
    /\ Range(split_res.train.image_id) # {}
    /\ Range(split_res.test.image_id) # {}

\* C5 as stated: for every number of images n >= 1, split_data_by_image assigns
\* whole images to one side and leaves at least one image in train and at least
\* one image in test.
C5_AnyImageCount ==
    split_res.op = "split_data_by_image" => WholeImagesOnBothSides

\* C5 as amended: that holds for every n >= 2; with n = 1 the call succeeds and
\* the single image, with every row, goes to one side while the other is empty.
C5_TwoOrMoreImages ==
    split_res.op = "split_data_by_image" =>
        /\ NumImages >= 2 => WholeImagesOnBothSides
        /\ NumImages = 1 =>
                /\ split_res.outcome = "ok"
                /\ (Len(split_res.train.other) = 0) # (Len(split_res.test.other) = 0)
                /\ Len(split_res.train.other) + Len(split_res.test.other)
                        = Len(inputs.other)

\* The edge case has acted: every image drew the same side, and there are two.
C5_Witness ==
    /\ split_res.op = "split_data_by_image"
    /\ NumImages = 2
    /\ Range(split_res.draw) = {TRUE}
    /\ WholeImagesOnBothSides

(***************************************************************************)
(* Claims about the reciprocal-space index.                                *)
(***************************************************************************)
\* The total size of the ASUs before ASU a.
RECURSIVE SizeBefore(_)
SizeBefore(a) ==
    IF a = 1 THEN 0 ELSE SizeBefore(a - 1) + Len(reciprocal_asus[a - 1].Hall)

CompositeKey(row) == <<row.asu_id, row.H>>

\* C6: in every ReciprocalASU the ids are exactly 0..n-1, in bijection with its n
\* Miller indices; in a collection that was built the global ids are exactly
\* 0..N-1, in bijection with the composite keys (asu_id, H), the ids of ASU a are
\* the block starting at the total size of the ASUs before it, in that ASU's own
\* id order, and one Miller index in two ASUs has two ids.
C6_DenseReflectionIds ==
    /\ \A a \in 1..Len(reciprocal_asus) :
        LET t == reciprocal_asus[a].lookup_table
        IN  /\ Len(t) = Len(reciprocal_asus[a].Hall)
            /\ {t[k].id : k \in 1..Len(t)} = 0..(Len(t) - 1)
            /\ {t[k].H : k \in 1..Len(t)} = Range(reciprocal_asus[a].Hall)
            /\ \A k, l \in 1..Len(t) : (t[k].id = t[l].id) <=> (t[k].H = t[l].H)
    /\ collection.outcome = "ok" =>
        LET T == collection.lookup_table
            N == SizeBefore(Len(reciprocal_asus) + 1)
        IN  /\ Len(T) = N
            /\ {T[k].id : k \in 1..Len(T)} = 0..(N - 1)
            /\ {CompositeKey(T[k]) : k \in 1..Len(T)} =
                    UNION {{<<a - 1, h>> : h \in Range(reciprocal_asus[a].Hall)} :
                                a \in 1..Len(reciprocal_asus)}
            /\ \A k, l \in 1..Len(T) :
                    (T[k].id = T[l].id) <=> (CompositeKey(T[k]) = CompositeKey(T[l]))
            /\ \A a \in 1..Len(reciprocal_asus) :
               \A m \in 1..Len(reciprocal_asus[a].lookup_table) :
                    \E k \in 1..Len(T) :
                        /\ CompositeKey(T[k]) = <<a - 1, reciprocal_asus[a].lookup_table[m].H>>
                        /\ T[k].id = SizeBefore(a) + reciprocal_asus[a].lookup_table[m].id
            /\ \A k, l \in 1..Len(T) :
                    (T[k].H = T[l].H /\ T[k].asu_id # T[l].asu_id) => T[k].id # T[l].id

\* A collection of two ASUs that share a Miller index, the second not empty.
C6_Witness ==
    /\ collection.outcome = "ok"
    /\ Len(reciprocal_asus) = 2
    /\ Len(reciprocal_asus[1].Hall) = 2
    /\ Range(reciprocal_asus[1].Hall) \cap Range(reciprocal_asus[2].Hall) # {}

\* C7: applying a lookup and then its inverse gives back the argument, in the
\* same order: to_refl_id on the (asu_id, H) pair returned by
\* to_asu_id_and_miller_index, to_asu_id_and_miller_index on the ids returned by
\* to_refl_id, and ReciprocalASU.to_miller_index and to_refl_id on each other.
C7_LookupsAreInverses ==
    asu_res.inverse_outcome # "none" =>
        /\ asu_res.inverse_outcome = "ok"
        /\ IF asu_res.op = "to_refl_id"
           THEN /\ asu_res.back.asu_id.data = asu_res.arg.asu_id.data
                /\ asu_res.back.H.data = asu_res.arg.H.data
           ELSE asu_res.back.data = asu_res.arg.data

(***************************************************************************)
(* Claims about the Wilson prior.                                          *)
(***************************************************************************)
\* Entry i of an evaluated density comes from the branch the centric flag
\* selects, and the acentric branch was evaluated at x[i] / epsilon[i].
BranchAndRescaling(values) ==
    \A i \in 1..Len(wilson_res.F) :
        /\ prior.centric[i] = 1 => values.data[i].dist = "HalfNormal"
        /\ prior.centric[i] = 0 =>
                /\ values.data[i].dist = "Rayleigh"
                /\ values.data[i].at = Divide(wilson_res.F[i], prior.epsilon[i])

\* C8: for prob and for log_prob alike, reflection i takes the half-normal branch
\* when centric[i] = 1 and the Rayleigh branch when centric[i] = 0, and the input
\* is rescaled by epsilon[i] before the acentric density is evaluated.
C8_AcentricBranchRescaled ==
    /\ wilson_res.prob # PyNone => BranchAndRescaling(wilson_res.prob)
    /\ wilson_res.log_prob # PyNone => BranchAndRescaling(wilson_res.log_prob)

\* log of a density value: the log density of the same distribution at the same
\* argument.
Log(v) == [v EXCEPT !.fn = "log_prob"]

\* C9: log_prob(x) equals log(prob(x)) entry by entry: both methods evaluate the
\* same branch density at the same (rescaled) argument.
C9_LogProbIsLogOfProb ==
    (wilson_res.prob # PyNone /\ wilson_res.log_prob # PyNone) =>
        \A i \in 1..Len(wilson_res.F) :
            wilson_res.log_prob.data[i] = Log(wilson_res.prob.data[i])

(***************************************************************************)
(* Claims about BaseMerger.add_scaling_model.                              *)
(***************************************************************************)
\* C13: every standardized entry handed to the scaling model is finite, also
\* for a metadata column of zero variance.
C13_StandardizedFinite ==
    (scaling.op = "add_scaling_model" /\ scaling.outcome = "ok") =>
        \A k \in 1..Len(scaling.scaling_model.metadata) :
            \A i \in 1..Len(scaling.scaling_model.metadata[k]) :
                scaling.scaling_model.metadata[k][i].finite

\* The key list add_scaling_model works with is malformed: None with no default
\* list, or a key that names no column, or a key that names a column that does
\* not convert to a number.
Malformed(self, metadata_keys) ==
    LET keys == IF metadata_keys = PyNone THEN self.metadata_keys ELSE metadata_keys
    IN  \/ keys = PyNone
        \/ /\ keys # PyNone
           /\ \E k \in 1..Len(keys.items) :
                \/ keys.items[k] \notin DOMAIN self.data
                \/ /\ keys.items[k] \in DOMAIN self.data
                   /\ ~self.data[keys.items[k]].numeric

\* C14: add_scaling_model called with a malformed key list raises and leaves
\* self.scaling_model as it was; a call that attaches a scaling model was made
\* with a well-formed list.
C14_MalformedKeysFailFast ==
    scaling.op = "add_scaling_model" =>
        /\ Malformed(scaling, scaling.arg) =>
                /\ scaling.outcome \in {"TypeError", "KeyError", "ValueError"}
                /\ scaling.scaling_model = scaling.before
        /\ scaling.outcome = "ok" => ~Malformed(scaling, scaling.arg)

\* A malformed list was rejected while a scaling model was already attached.
C14_Witness ==
    /\ scaling.op = "add_scaling_model"
    /\ Malformed(scaling, scaling.arg)
    /\ scaling.outcome = "KeyError"
    /\ scaling.before # PyNone

(***************************************************************************)
(* Claims about the life of a merger.                                      *)
(***************************************************************************)
\* The configured state: prior, likelihood and scaling model are all attached.
Configured ==
    /\ merger.prior # PyNone
    /\ merger.likelihood # NoLikelihood
    /\ merger.scaling_model # PyNone

\* C11: the merger is in the training state (the VariationalMergingModel is
\* constructed and fit is iterating) only when prior, likelihood and scaling
\* model are all attached; train_model called with one of them absent does not
\* start training.
C11_TrainingOnlyWhenConfigured ==
    (merger.kind = "merger" /\ merger.phase = "training") => Configured

\* train_model on a configured merger has returned: fit made exactly
\* `iterations` steps, the losses of the steps were returned in step order, and
\* self.merger and self.results are set.
ReturnedAfterAllSteps ==
    (merger.kind = "merger" /\ merger.phase = "returned") =>
        /\ merger.step = merger.iterations
        /\ Len(merger.losses) = merger.iterations
        /\ \A k \in 1..Len(merger.losses) : merger.losses[k] = Loss(k)
        /\ merger.returned = Tensor(merger.losses)
        /\ merger.merger # PyNone
        /\ merger.results # PyNone

Renumbered(part, idx) ==
    LET m == Len(Masked(inputs.other, idx))
        old == Masked(inputs.harmonic_id, idx)
        u == Cardinality(Range(old))
    IN  /\ Len(part.harmonic_id) = m
        /\ Range(part.harmonic_id) = 0..(u - 1)
        /\ \A j, l \in 1..m :
                (part.harmonic_id[j] = part.harmonic_id[l]) <=> (old[j] = old[l])
        /\ Len(part.intensities) = m
        /\ Len(part.uncertainties) = m
        /\ \A h \in (u + 1)..m :
                part.intensities[h] = PadValue /\ part.uncertainties[h] = PadValue
        /\ \A j \in 1..m :
                /\ part.intensities[part.harmonic_id[j] + 1]
                        = inputs.intensities[old[j] + 1]
                /\ part.uncertainties[part.harmonic_id[j] + 1]
                        = inputs.uncertainties[old[j] + 1]
        /\ part.other = Masked(inputs.other, idx)
        /\ part.image_id = Masked(inputs.image_id, idx)

\* C18: each partition split_laue_data_by_mask returns has its harmonic ids
\* renumbered to 0..u-1 with the groups kept, intensities and uncertainties of
\* exactly m rows (u real, the rest padded with 1) that give every row the
\* observation it had in the unsplit inputs, and all other arrays cut by the
\* mask in their original order.
C18_LauePartitionsRenumbered ==
    (split_res.outcome = "ok" /\ is_laue(inputs)) =>
        /\ Renumbered(split_res.train, Negate(split_res.test_idx))
        /\ Renumbered(split_res.test, split_res.test_idx)

\* A Laue split whose test side is renumbered (its groups did not start at 0)
\* and padded (it has fewer groups than rows).
C18_Witness ==
    /\ split_res.op = "split_laue_data_by_mask"
    /\ split_res.outcome = "ok"
    /\ Len(split_res.test.other) = 2
    /\ Range(split_res.test.harmonic_id) = {0}
    /\ 0 \notin Range(Masked(inputs.harmonic_id, split_res.test_idx))
    /\ Len(split_res.train.other) > 0

\* What split_mono_data_by_mask promises: each row on exactly one side, on the
\* test side iff the mask is true there, in the original order, and every array
\* cut by the same mask.
MonoPartition ==
    LET n == Len(inputs.other)
        train == split_res.train
        test == split_res.test
    IN  /\ Range(test.other) = {k \in 1..n : split_res.test_idx[k]}
        /\ Range(train.other) = {k \in 1..n : ~split_res.test_idx[k]}
        /\ Len(test.other) + Len(train.other) = n
        /\ \A part \in {train, test} :
                /\ \A j, l \in 1..Len(part.other) :
                        j < l => part.other[j] < part.other[l]
                /\ \A name \in DOMAIN inputs :
                        /\ Len(part[name]) = Len(part.other)
                        /\ \A j \in 1..Len(part.other) :
                                part[name][j] = inputs[name][part.other[j]]

\* C19: split_mono_data_by_mask puts every row on exactly one side (test iff
\* test_idx is true there), keeps the row order on both sides, splits every
\* array with the same mask, and leaves self.inputs unchanged.
C19_MonoMaskPartitionsRows ==
    /\ []((split_res.outcome = "ok" /\ ~is_laue(inputs)) => MonoPartition)
    /\ [][split_res'.op = "split_mono_data_by_mask" => inputs' = inputs]_vars

\* A mask over three rows that sends the second row to test and the others to
\* train.
C19_Witness ==
    /\ split_res.op = "split_mono_data_by_mask"
    /\ Len(split_res.test.other) = 1
    /\ Len(split_res.train.other) = 2
    /\ split_res.test_idx[2]

SameObservation(r, s) ==
    r.ray = s.ray /\ r.BATCH = s.BATCH /\ r.file_id = s.file_id

\* C16: after prep_indices, for both values of separate_files, two retained rows
\* carry the same observation_id iff they agree on (H_0, K_0, L_0, image key,
\* experiment key), so observations of one ray on equally numbered images of
\* two files never share an id; and the ids are contiguous integers from 0.
C16_ObservationIdPerObservation ==
    prep.op = "prep_indices" =>
        /\ \A i, j \in 1..Len(prep.data) :
                (prep.data[i].observation_id = prep.data[j].observation_id)
                    <=> SameObservation(prep.data[i], prep.data[j])
        /\ Len(prep.data) > 0 =>
                Range(Field(prep.data, "observation_id"))
                    = 0..SetMax(Range(Field(prep.data, "observation_id")))

\* C17: a group keyed by (H_0, K_0, L_0, image key, experiment key) is removed
\* whole when any of its rows holds a null and kept whole otherwise: a loaded
\* row is retained iff no row of its group holds a null, and the retained rows
\* keep their order.
C17_GroupsRemovedEnBloc ==
    prep.op = "prep_indices" =>
        /\ Range(Field(prep.data, "row")) =
                {i \in 1..Len(prep.loaded) :
                    \A j \in 1..Len(prep.loaded) :
                        SameObservation(prep.loaded[i], prep.loaded[j])
                            => ~prep.loaded[j].null}
        /\ \A i, j \in 1..Len(prep.data) :
                i < j => prep.data[i].row < prep.data[j].row
        /\ \A i \in 1..Len(prep.data) :
                LET r == prep.loaded[prep.data[i].row]
                IN  /\ prep.data[i].ray = r.ray
                    /\ prep.data[i].BATCH = r.BATCH
                    /\ prep.data[i].file_id = r.file_id
                    /\ prep.data[i].hkl = r.hkl

\* An observation of two harmonics, one of them null, was removed whole while a
\* row of another observation was kept.
C17_Witness ==
    /\ prep.op = "prep_indices"
    /\ Len(prep.loaded) = 3
    /\ Len(prep.data) = 1
    /\ \E i, j \in 1..3 :
        /\ i # j
        /\ SameObservation(prep.loaded[i], prep.loaded[j])
        /\ prep.loaded[i].null
        /\ ~prep.loaded[j].null

(***************************************************************************)
(* Claims about DataManager.get_results.                                   *)
(***************************************************************************)
\* How often reflection id `id` occurs in the refl_id column of the inputs.
Observations(id) ==
    Cardinality({k \in 1..Len(report.refl_id) : report.refl_id[k] = id})

\* C20: get_results returns one DataSet per ReciprocalASU, in ASU order; the
\* DataSet of ASU i holds precisely the reflections of asu_id i observed at
\* least once, each with F and SigF the posterior's mean and stddev at its
\* reflection id and N the number of input rows with that id.
C20_OneDataSetPerAsu ==
    report.op = "get_results" =>
        /\ report.outcome = "ok"
        /\ Len(report.results) = Len(report.asus)
        /\ \A i \in 1..Len(report.results) :
            LET mine == {k \in 1..Len(report.collection.lookup_table) :
                            /\ report.collection.lookup_table[k].asu_id = i - 1
                            /\ Observations(report.collection.lookup_table[k].id) > 0}
            IN  /\ {"F", "SigF"} \subseteq Range(report.results[i].columns)
                /\ Len(report.results[i].rows) = Cardinality(mine)
                /\ \A k \in mine :
                    \E j \in 1..Len(report.results[i].rows) :
                        LET t == report.collection.lookup_table[k]
                        IN  report.results[i].rows[j] =
                                [H |-> t.H, F |-> MeanOf(t.id),
                                 SigF |-> StddevOf(t.id),
                                 N |-> Observations(t.id)]

\* C22: get_wilson_prior(b) returns, for b = None, a WilsonPrior over the
\* collection's centric flags and multiplicities with sigma = 1 and, for a
\* float b, one with sigma derived from b and the resolution; both calls
\* complete without error.  For b of any other type it raises ValueError and
\* constructs no prior.
C22_WilsonPriorFromCollection ==
    report.op = "get_wilson_prior" =>
        IF report.b = PyNone \/ report.b.kind = "float"
        THEN /\ report.outcome = "ok"
             /\ report.prior = WilsonPrior(centric(report.collection),
                                           multiplicity(report.collection))
             /\ report.sigma = (IF report.b = PyNone THEN "1."
                                ELSE "exp(-0.25 * b * dHKL**-2.)")
        ELSE report.outcome = "ValueError" /\ report.prior = PyNone

(***************************************************************************)
(* Claims about get_first_key_of_type, BaseMerger.__init__ and             *)
(* BaseMerger.append_reference_data.                                       *)
(***************************************************************************)
\* The columns of the dataset whose dtype is t, by position.
OfType(t) == {k \in 1..Len(built.dataset) : built.dataset[k].dtype = t}

FirstOfType(t) == built.dataset[SortedSeq(OfType(t))[1]].name

\* C21: get_first_key_of_type returns the first column of the requested type
\* and raises KeyError when there is none; so a constructor that finds neither
\* 'Sig<intensity_key>' nor 'SIG<intensity_key>' sets sigma_intensity_key to
\* the first column of type 'Q', which is never intensity_key.
C21_FirstKeyOfRequestedType ==
    /\ built.op = "get_first_key_of_type" =>
        IF OfType(built.arg) = {}
        THEN built.outcome = "KeyError"
        ELSE built.outcome = "ok" /\ built.returned = FirstOfType(built.arg)
    /\ (/\ built.op = "__init__"
        /\ OfType("J") # {}
        /\ ("Sig" \o FirstOfType("J")) \notin Names(built.dataset)
        /\ ("SIG" \o FirstOfType("J")) \notin Names(built.dataset)) =>
        IF OfType("Q") = {}
        THEN built.outcome = "KeyError"
        ELSE /\ built.outcome = "ok"
             /\ built.sigma_intensity_key = FirstOfType("Q")
             /\ built.sigma_intensity_key # built.intensity_key

\* C23: append_reference_data(data) raises TypeError when data is neither a
\* string nor an rs.DataSet and then leaves self.data unchanged; for a string
\* or a DataSet it returns self with REF and SIGREF joined onto self.data and
\* the cell and spacegroup of self.data preserved.
C23_ReferenceDataTypeChecked ==
    built.op = "append_reference_data" =>
        IF built.arg \notin {"str", "DataSet"}
        THEN /\ built.outcome = "TypeError"
             /\ built.data.columns = built.before
        ELSE /\ built.outcome = "ok"
             /\ built.returned = "self"
             /\ built.data.columns = built.before \cup {"REF", "SIGREF"}
             /\ built.data.cell = "cell"
             /\ built.data.spacegroup = "spacegroup"

====
